---- MODULE Spec2Model ----
(***************************************************************************)
(* Model of the cost-analysis engine of the AWS cost analyzer:             *)
(*   - EnhancedBillingParser (src/backend/billing_parser.py): the          *)
(*     multiplier-table estimator analyze_costs and the CSV decoder that   *)
(*     feeds it;                                                           *)
(*   - the Flask handler POST /api/analyze (src/app.py): the simple        *)
(*     tiered-rate estimator.                                              *)
(*                                                                         *)
(* Representation.                                                         *)
(*   Strings the code inspects character by character (service names, the *)
(*   text of monthlyBill) are sequences of one-character strings, so that  *)
(*   upper(), lower(), split(), `in` and float() are computed, not         *)
(*   assumed.  Strings the code only compares as a whole (workload type,   *)
(*   plan, titles) are TLA+ strings.                                       *)
(*   Python floats are records [k, n, d]: k = "fin" is the exact rational  *)
(*   n/d in lowest terms (d > 0), k = "nan", "pinf", "ninf" are the IEEE   *)
(*   special values.  The rounding error of binary floating point          *)
(*   (relative 2^-53) is not modelled.                                     *)
(***************************************************************************)
EXTENDS Integers, Sequences, FiniteSets, TLC

(***************************************************************************)
(* Bounds of the model.                                                    *)
(***************************************************************************)
\* longest services list of arbitrary names handed to analyze_costs
MaxServices == 2
\* longest services list that names one service over and over
MaxRepeat == 6
\* most data rows of a decoded CSV billing file
MaxRows == 2

(***************************************************************************)
(* Exact rationals and the float special values.                           *)
(***************************************************************************)
Abs(x) == IF x < 0 THEN -x ELSE x

RECURSIVE GCD(_, _)
GCD(a, b) == IF b = 0 THEN a ELSE GCD(b, a % b)

\* the float n/d, in lowest terms with a positive denominator
R(n, d) ==
    LET s == IF d < 0 THEN -1 ELSE 1
        g == GCD(Abs(n), Abs(d))
    IN  [k |-> "fin", n |-> (s * n) \div g, d |-> (s * d) \div g]

NaN == [k |-> "nan", n |-> 0, d |-> 1]
PInf == [k |-> "pinf", n |-> 1, d |-> 1]
NInf == [k |-> "ninf", n |-> -1, d |-> 1]

IsFin(x) == x.k = "fin"
Sign(x) == IF x.n > 0 THEN 1 ELSE IF x.n < 0 THEN -1 ELSE 0

\* x * y on floats
FMul(x, y) ==
    IF IsFin(x) /\ IsFin(y)
    THEN LET g == GCD(Abs(x.n), y.d)
             h == GCD(Abs(y.n), x.d)
         IN  R((x.n \div g) * (y.n \div h), (x.d \div h) * (y.d \div g))
    ELSE IF x.k = "nan" \/ y.k = "nan" \/ Sign(x) = 0 \/ Sign(y) = 0 THEN NaN
    ELSE IF Sign(x) * Sign(y) > 0 THEN PInf ELSE NInf

\* x + y on floats
FAdd(x, y) ==
    IF IsFin(x) /\ IsFin(y) THEN R(x.n * y.d + y.n * x.d, x.d * y.d)
    ELSE IF x.k = "nan" \/ y.k = "nan" THEN NaN
    ELSE IF IsFin(x) THEN y
    ELSE IF IsFin(y) THEN x
    ELSE IF x.k = y.k THEN x ELSE NaN

FNeg(x) ==
    IF IsFin(x) THEN R(-x.n, x.d)
    ELSE IF x.k = "pinf" THEN NInf
    ELSE IF x.k = "ninf" THEN PInf ELSE NaN

\* x - y on floats
FSub(x, y) == FAdd(x, FNeg(y))

\* x <= y on floats: every comparison with nan is False
FLe(x, y) ==
    IF x.k = "nan" \/ y.k = "nan" THEN FALSE
    ELSE IF IsFin(x) /\ IsFin(y) THEN x.n * y.d <= y.n * x.d
    ELSE x.k = "ninf" \/ y.k = "pinf"

\* x < y on floats
FLt(x, y) == FLe(x, y) /\ x # y

\* min(x, y) of Python: y if y < x else x
FMin(x, y) == IF FLt(y, x) THEN y ELSE x

\* round(x, 2): to the nearest hundredth, ties to even; nan and inf unchanged
Round2(x) ==
    IF ~IsFin(x) THEN x
    ELSE LET num == x.n * 100
             q == num \div x.d
             r == num % x.d
             up == \/ 2 * r > x.d
                   \/ (2 * r = x.d /\ q % 2 = 1)
         IN  R(IF up THEN q + 1 ELSE q, 100)

Zero == R(0, 1)
One == R(1, 1)

(***************************************************************************)
(* Character strings: sequences of one-character strings.                  *)
(***************************************************************************)
LowerAlphabet ==
    <<"a", "b", "c", "d", "e", "f", "g", "h", "i", "j", "k", "l", "m",
      "n", "o", "p", "q", "r", "s", "t", "u", "v", "w", "x", "y", "z">>
UpperAlphabet ==
    <<"A", "B", "C", "D", "E", "F", "G", "H", "I", "J", "K", "L", "M",
      "N", "O", "P", "Q", "R", "S", "T", "U", "V", "W", "X", "Y", "Z">>
Digits == <<"0", "1", "2", "3", "4", "5", "6", "7", "8", "9">>
Whitespace == {" ", "\t", "\n"}

\* position of character c in the sequence alphabet, 0 when absent
IndexOf(c, alphabet) ==
    IF \E i \in DOMAIN alphabet : alphabet[i] = c
    THEN CHOOSE i \in DOMAIN alphabet : alphabet[i] = c
    ELSE 0

UpperChar(c) ==
    LET i == IndexOf(c, LowerAlphabet) IN IF i = 0 THEN c ELSE UpperAlphabet[i]
LowerChar(c) ==
    LET i == IndexOf(c, UpperAlphabet) IN IF i = 0 THEN c ELSE LowerAlphabet[i]

\* str.upper() and str.lower()
Upper(s) == [i \in DOMAIN s |-> UpperChar(s[i])]
Lower(s) == [i \in DOMAIN s |-> LowerChar(s[i])]

\* str.strip(): without leading and trailing whitespace
RECURSIVE LStrip(_)
LStrip(s) ==
    IF s # <<>> /\ Head(s) \in Whitespace THEN LStrip(Tail(s)) ELSE s
RECURSIVE RStrip(_)
RStrip(s) ==
    IF s # <<>> /\ s[Len(s)] \in Whitespace
    THEN RStrip(SubSeq(s, 1, Len(s) - 1)) ELSE s
Strip(s) == RStrip(LStrip(s))

\* the characters of s up to its first whitespace character
RECURSIVE TakeWord(_)
TakeWord(s) ==
    IF s = <<>> \/ Head(s) \in Whitespace THEN <<>>
    ELSE <<Head(s)>> \o TakeWord(Tail(s))

\* str.split() has no element: the string is empty or all whitespace
SplitIsEmpty(s) == LStrip(s) = <<>>
\* str.split()[0], defined when ~SplitIsEmpty(s)
FirstToken(s) == TakeWord(LStrip(s))

\* sub in s
Contains(sub, s) ==
    \E i \in 0 .. (Len(s) - Len(sub)) : SubSeq(s, i + 1, i + Len(sub)) = sub

\* the characters of a TLA+ string literal cannot be taken apart, so the
\* strings the code inspects are written out
sEC2 == <<"E", "C", "2">>
sS3 == <<"S", "3">>
sRDS == <<"R", "D", "S">>
sLambda == <<"L", "a", "m", "b", "d", "a">>
sCloudFront == <<"C", "l", "o", "u", "d", "F", "r", "o", "n", "t">>
sec2 == <<"e", "c", "2">>
scompute == <<"c", "o", "m", "p", "u", "t", "e">>
ss3 == <<"s", "3">>
sstorage == <<"s", "t", "o", "r", "a", "g", "e">>
srds == <<"r", "d", "s">>
sdatabase == <<"d", "a", "t", "a", "b", "a", "s", "e">>
sUnknown == <<"U", "n", "k", "n", "o", "w", "n">>

(***************************************************************************)
(* Python dicts with string keys: sequences of <<key, value>> pairs in     *)
(* insertion order, no key twice.                                          *)
(***************************************************************************)
HasKey(dict, key) == \E i \in DOMAIN dict : dict[i][1] = key
Get(dict, key) == dict[CHOOSE i \in DOMAIN dict : dict[i][1] = key][2]
\* dict[key] = value
DictSet(dict, key, value) ==
    IF HasKey(dict, key)
    THEN [i \in DOMAIN dict |->
            IF dict[i][1] = key THEN <<key, value>> ELSE dict[i]]
    ELSE Append(dict, <<key, value>>)
\* list(dict.keys())
Keys(dict) == [i \in DOMAIN dict |-> dict[i][1]]

(***************************************************************************)
(* EnhancedBillingParser._calculate_potential_savings                      *)
(***************************************************************************)
\* number of recommendations analyze_costs returns at most
TopN == 10

base_savings_rate == R(25, 100)

service_multipliers ==
    << <<sEC2, R(12, 10)>>,
       <<sS3, R(11, 10)>>,
       <<sRDS, R(13, 10)>>,
       <<sLambda, R(8, 10)>>,
       <<sCloudFront, R(10, 10)>> >>

workload_multipliers ==
    [web |-> R(10, 10), data |-> R(12, 10), ml |-> R(11, 10),
     storage |-> R(13, 10), compute |-> R(14, 10)]

\* service.upper().split()[0]
ServiceKey(service) == FirstToken(Upper(service))

\* service.upper().split()[0] raises IndexError for some declared service
SplitRaises(services) ==
    \E i \in DOMAIN services : SplitIsEmpty(Upper(services[i]))

\* the loop over services: multiplier *= service_multipliers[service_key]
RECURSIVE ServiceMultiplier(_, _)
ServiceMultiplier(multiplier, services) ==
    IF services = <<>> THEN multiplier
    ELSE LET service_key == ServiceKey(Head(services))
         IN  ServiceMultiplier(
                 IF HasKey(service_multipliers, service_key)
                 THEN FMul(multiplier, Get(service_multipliers, service_key))
                 ELSE multiplier,
                 Tail(services))

\* the compound multiplier before the cap
Multiplier(services, workload_type) ==
    LET m == ServiceMultiplier(One, services)
    IN  IF workload_type \in DOMAIN workload_multipliers
        THEN FMul(m, workload_multipliers[workload_type])
        ELSE m

\* the savings without the cap on the multiplier
CalculatePotentialSavingsUncapped(monthly_bill, services, workload_type) ==
    FMul(FMul(monthly_bill, base_savings_rate),
         Multiplier(services, workload_type))

\* monthly_bill * base_savings_rate * min(multiplier, 1.5)
CalculatePotentialSavings(monthly_bill, services, workload_type) ==
    FMul(FMul(monthly_bill, base_savings_rate),
         FMin(Multiplier(services, workload_type), R(15, 10)))

(***************************************************************************)
(* EnhancedBillingParser._generate_recommendations                         *)
(***************************************************************************)
CostRecommendation(title, savings, priority, effort, category) ==
    [title |-> title, potential_savings |-> savings, priority |-> priority,
     implementation_effort |-> effort, category |-> category]

BaseRecommendations(monthly_bill) ==
    << CostRecommendation("Reserved Instances",
           FMul(monthly_bill, R(15, 100)), "High", "Medium", "Compute"),
       CostRecommendation("Right-size EC2 Instances",
           FMul(monthly_bill, R(12, 100)), "High", "Easy", "Compute"),
       CostRecommendation("S3 Storage Optimization",
           FMul(monthly_bill, R(8, 100)), "Medium", "Easy", "Storage") >>

\* the recommendations of a service, Spot Instances for every workload
ServiceRecommendationsAnyWorkload(monthly_bill, service, workload_type) ==
    LET service_lower == Lower(service)
    IN  (IF Contains(sec2, service_lower) \/ Contains(scompute, service_lower)
         THEN << CostRecommendation("Spot Instances",
                     FMul(monthly_bill, R(20, 100)), "High", "Complex", "Compute") >>
         ELSE << >>)
        \o
        (IF Contains(ss3, service_lower) \/ Contains(sstorage, service_lower)
         THEN << CostRecommendation("S3 Lifecycle Policies",
                     FMul(monthly_bill, R(10, 100)), "Medium", "Easy", "Storage") >>
         ELSE << >>)
        \o
        (IF Contains(srds, service_lower) \/ Contains(sdatabase, service_lower)
         THEN << CostRecommendation("RDS Reserved Instances",
                     FMul(monthly_bill, R(18, 100)), "High", "Medium", "Database") >>
         ELSE << >>)

\* the recommendations one declared service appends
ServiceRecommendations(monthly_bill, service, workload_type) ==
    LET service_lower == Lower(service)
    IN  (IF /\ (Contains(sec2, service_lower) \/ Contains(scompute, service_lower))
            /\ workload_type = "compute"
         THEN << CostRecommendation("Spot Instances",
                     FMul(monthly_bill, R(20, 100)), "High", "Complex", "Compute") >>
         ELSE << >>)
        \o
        (IF Contains(ss3, service_lower) \/ Contains(sstorage, service_lower)
         THEN << CostRecommendation("S3 Lifecycle Policies",
                     FMul(monthly_bill, R(10, 100)), "Medium", "Easy", "Storage") >>
         ELSE << >>)
        \o
        (IF Contains(srds, service_lower) \/ Contains(sdatabase, service_lower)
         THEN << CostRecommendation("RDS Reserved Instances",
                     FMul(monthly_bill, R(18, 100)), "High", "Medium", "Database") >>
         ELSE << >>)

\* the loop over services
RECURSIVE AllServiceRecommendations(_, _, _)
AllServiceRecommendations(monthly_bill, services, workload_type) ==
    IF services = <<>> THEN << >>
    ELSE ServiceRecommendations(monthly_bill, Head(services), workload_type)
         \o AllServiceRecommendations(monthly_bill, Tail(services), workload_type)

\* the plan check dropped: Auto Scaling for every plan
PlanRecommendationsAnyPlan(monthly_bill, user_plan) ==
    << CostRecommendation("Auto Scaling Groups",
           FMul(monthly_bill, R(10, 100)), "Medium", "Complex", "Compute") >>

PlanRecommendations(monthly_bill, user_plan) ==
    IF user_plan \in {"professional", "enterprise"}
    THEN << CostRecommendation("Auto Scaling Groups",
                FMul(monthly_bill, R(10, 100)), "Medium", "Complex", "Compute") >>
    ELSE << >>

\* the list before it is sorted and cut
UnsortedRecommendations(monthly_bill, services, workload_type, user_plan) ==
    BaseRecommendations(monthly_bill)
    \o AllServiceRecommendations(monthly_bill, services, workload_type)
    \o PlanRecommendations(monthly_bill, user_plan)

\* x put into a list sorted by descending potential_savings, behind the
\* entries that are not smaller (the sort is stable)
RECURSIVE InsertDesc(_, _)
InsertDesc(sorted, x) ==
    IF sorted = <<>> THEN <<x>>
    ELSE IF FLt(Head(sorted).potential_savings, x.potential_savings)
         THEN <<x>> \o sorted
         ELSE <<Head(sorted)>> \o InsertDesc(Tail(sorted), x)

\* the sort without reverse=True: ascending potential_savings
RECURSIVE SortAsc(_)
SortAsc(recs) ==
    IF recs = << >> THEN << >>
    ELSE LET rest == SortAsc(Tail(recs))
             x == Head(recs)
             smaller == SelectSeq(rest, LAMBDA y :
                            FLt(y.potential_savings, x.potential_savings))
             others == SelectSeq(rest, LAMBDA y :
                            ~FLt(y.potential_savings, x.potential_savings))
         IN  smaller \o <<x>> \o others

\* recommendations.sort(key=lambda x: x.potential_savings, reverse=True)
RECURSIVE SortDesc(_)
SortDesc(recs) ==
    IF recs = <<>> THEN << >>
    ELSE InsertDesc(SortDesc(SubSeq(recs, 1, Len(recs) - 1)), recs[Len(recs)])

\* the cut one entry short: recommendations[:9]
TopOffByOne(recs) ==
    SubSeq(recs, 1, IF Len(recs) < TopN - 1 THEN Len(recs) ELSE TopN - 1)

\* recommendations[:10]
Top(recs) == SubSeq(recs, 1, IF Len(recs) < TopN THEN Len(recs) ELSE TopN)

GenerateRecommendations(monthly_bill, services, workload_type, user_plan) ==
    Top(SortDesc(UnsortedRecommendations(monthly_bill, services,
                                         workload_type, user_plan)))

(***************************************************************************)
(* EnhancedBillingParser._calculate_confidence_score                       *)
(***************************************************************************)
WorkloadBonus(workload_type) ==
    LET bonus == [web |-> R(10, 100), data |-> R(15, 100), ml |-> R(5, 100),
                  storage |-> R(10, 100), compute |-> R(15, 100)]
    IN  IF workload_type \in DOMAIN bonus THEN bonus[workload_type]
        ELSE R(5, 100)

PlanBonus(user_plan) ==
    LET bonus == [starter |-> R(0, 100), professional |-> R(10, 100),
                  enterprise |-> R(15, 100)]
    IN  IF user_plan \in DOMAIN bonus THEN bonus[user_plan] ELSE R(0, 100)

\* the score without its ceiling of 0.95
CalculateConfidenceScoreUncapped(services, workload_type, user_plan) ==
    LET base_score == R(70, 100)
        service_bonus == FMin(FMul(R(Len(services), 1), R(5, 100)), R(20, 100))
    IN  FAdd(FAdd(FAdd(base_score, service_bonus),
                  WorkloadBonus(workload_type)),
             PlanBonus(user_plan))

CalculateConfidenceScore(services, workload_type, user_plan) ==
    LET base_score == R(70, 100)
        service_bonus == FMin(FMul(R(Len(services), 1), R(5, 100)), R(20, 100))
    IN  FMin(FAdd(FAdd(FAdd(base_score, service_bonus),
                       WorkloadBonus(workload_type)),
                  PlanBonus(user_plan)),
             R(95, 100))

(***************************************************************************)
(* EnhancedBillingParser._simulate_service_breakdown                       *)
(***************************************************************************)
sOther == <<"O", "t", "h", "e", "r">>
sOtherServices == <<"O", "t", "h", "e", "r", " ", "S", "e", "r", "v", "i", "c", "e", "s">>
sDynamoDB == <<"D", "y", "n", "a", "m", "o", "D", "B">>
sEBS == <<"E", "B", "S">>
sELB == <<"E", "L", "B">>
sRoute53 == <<"R", "o", "u", "t", "e", "5", "3">>
sCloudWatch == <<"C", "l", "o", "u", "d", "W", "a", "t", "c", "h">>
scost == <<"c", "o", "s", "t">>
samount == <<"a", "m", "o", "u", "n", "t">>
sservice == <<"s", "e", "r", "v", "i", "c", "e">>
sproduct == <<"p", "r", "o", "d", "u", "c", "t">>

service_distributions ==
    << <<sEC2, R(40, 100)>>, <<sS3, R(20, 100)>>, <<sRDS, R(15, 100)>>,
       <<sLambda, R(10, 100)>>, <<sCloudFront, R(10, 100)>>,
       <<sDynamoDB, R(8, 100)>>, <<sEBS, R(12, 100)>>, <<sELB, R(5, 100)>>,
       <<sRoute53, R(2, 100)>>, <<sCloudWatch, R(3, 100)>> >>

\* the default split without its last entry
DefaultBreakdownNoOther(monthly_bill) ==
    << <<sEC2, FMul(monthly_bill, R(40, 100))>>,
       <<sS3, FMul(monthly_bill, R(20, 100))>>,
       <<sRDS, FMul(monthly_bill, R(15, 100))>>,
       <<sLambda, FMul(monthly_bill, R(10, 100))>>,
       <<sCloudFront, FMul(monthly_bill, R(10, 100))>> >>

DefaultBreakdown(monthly_bill) ==
    << <<sEC2, FMul(monthly_bill, R(40, 100))>>,
       <<sS3, FMul(monthly_bill, R(20, 100))>>,
       <<sRDS, FMul(monthly_bill, R(15, 100))>>,
       <<sLambda, FMul(monthly_bill, R(10, 100))>>,
       <<sCloudFront, FMul(monthly_bill, R(10, 100))>>,
       <<sOther, FMul(monthly_bill, R(5, 100))>> >>

\* the loop over services; acc is [service_costs, remaining_bill]
RECURSIVE DistributeCosts(_, _, _)
DistributeCosts(acc, monthly_bill, services) ==
    IF services = <<>> THEN acc
    ELSE LET service == Head(services)
             service_key == ServiceKey(service)
             cost == FMul(monthly_bill, Get(service_distributions, service_key))
         IN  DistributeCosts(
                 IF HasKey(service_distributions, service_key)
                 THEN [service_costs |-> DictSet(acc.service_costs, service, cost),
                       remaining_bill |-> FSub(acc.remaining_bill, cost)]
                 ELSE acc,
                 monthly_bill, Tail(services))

\* the remainder entered without the test for > 0
SimulateServiceBreakdownUnguarded(monthly_bill, services) ==
    IF services = <<>> THEN DefaultBreakdown(monthly_bill)
    ELSE LET acc == DistributeCosts(
                        [service_costs |-> << >>, remaining_bill |-> monthly_bill],
                        monthly_bill, services)
         IN  DictSet(acc.service_costs, sOtherServices, acc.remaining_bill)

SimulateServiceBreakdown(monthly_bill, services) ==
    IF services = <<>> THEN DefaultBreakdown(monthly_bill)
    ELSE LET acc == DistributeCosts(
                        [service_costs |-> << >>, remaining_bill |-> monthly_bill],
                        monthly_bill, services)
         IN  IF FLt(Zero, acc.remaining_bill)
             THEN DictSet(acc.service_costs, sOtherServices, acc.remaining_bill)
             ELSE acc.service_costs

(***************************************************************************)
(* EnhancedBillingParser.analyze_costs                                     *)
(***************************************************************************)
\* the subtraction with its operands swapped
OptimizedCostSwapped(monthly_bill, potential_savings) ==
    FSub(potential_savings, monthly_bill)

\* optimized_cost = monthly_bill - potential_savings
OptimizedCost(monthly_bill, potential_savings) ==
    FSub(monthly_bill, potential_savings)

\* what a call returns or raises; the first statement to raise is the
\* split()[0] of _calculate_potential_savings
AnalyzeCostsOutcome(monthly_bill, services, region, workload_type, user_plan) ==
    IF SplitRaises(services)
    THEN [kind |-> "raise", exc |-> "IndexError"]
    ELSE LET potential_savings ==
                 CalculatePotentialSavings(monthly_bill, services, workload_type)
         IN  [kind |-> "result",
              value |->
                [current_bill |-> monthly_bill,
                 potential_savings |-> potential_savings,
                 optimized_bill |-> OptimizedCost(monthly_bill, potential_savings),
                 wasted_spend |-> FMul(monthly_bill, R(22, 100)),
                 recommendations |->
                     GenerateRecommendations(monthly_bill, services,
                                             workload_type, user_plan),
                 service_breakdown |->
                     SimulateServiceBreakdown(monthly_bill, services),
                 confidence_score |->
                     CalculateConfidenceScore(services, workload_type, user_plan),
                 region |-> region,
                 workload_type |-> workload_type]]

(***************************************************************************)
(* Values as they arrive in a JSON body or a table cell, and float().      *)
(* t is "absent" (no such key), "na" (empty cell), "null", "bool", "num",  *)
(* "str" or "list".                                                        *)
(***************************************************************************)
Val(t, b, v, s) == [t |-> t, b |-> b, v |-> v, s |-> s]
Absent == Val("absent", FALSE, Zero, << >>)
NA == Val("na", FALSE, Zero, << >>)
Null == Val("null", FALSE, Zero, << >>)
Bool(b) == Val("bool", b, Zero, << >>)
Num(v) == Val("num", FALSE, v, << >>)
Str(s) == Val("str", FALSE, Zero, s)
List == Val("list", FALSE, Zero, << >>)

snan == <<"n", "a", "n">>
sinf == <<"i", "n", "f">>
sinfinity == <<"i", "n", "f", "i", "n", "i", "t", "y">>

IsDigit(c) == IndexOf(c, Digits) # 0

\* the number a string of decimal digits denotes
RECURSIVE DigitsValue(_, _)
DigitsValue(acc, s) ==
    IF s = << >> THEN acc
    ELSE DigitsValue(10 * acc + (IndexOf(Head(s), Digits) - 1), Tail(s))

RECURSIVE Pow10(_)
Pow10(n) == IF n = 0 THEN 1 ELSE 10 * Pow10(n - 1)

\* float(s) for a string: surrounding whitespace, a sign, then nan, inf,
\* infinity in any case, or decimal digits with at most one point.
\* (Exponents and digit-group underscores are not modelled.)
ParseFloat(s) ==
    LET t == Strip(s)
        signed == t # << >> /\ Head(t) \in {"+", "-"}
        neg == signed /\ Head(t) = "-"
        body == IF signed THEN Tail(t) ELSE t
        low == Lower(body)
        points == {i \in DOMAIN body : body[i] = "."}
        digits == SelectSeq(body, IsDigit)
        p == CHOOSE i \in points : TRUE
        mag == R(DigitsValue(0, digits), Pow10(Len(body) - p))
        int == R(DigitsValue(0, digits), 1)
        ok(v) == [ok |-> TRUE, v |-> IF neg THEN FNeg(v) ELSE v, exc |-> "none"]
    IN  IF low = snan THEN [ok |-> TRUE, v |-> NaN, exc |-> "none"]
        ELSE IF low \in {sinf, sinfinity} THEN ok(PInf)
        ELSE IF /\ digits # << >>
                /\ Cardinality(points) <= 1
                /\ Len(digits) + Cardinality(points) = Len(body)
             THEN ok(IF points = {} THEN int ELSE mag)
        ELSE [ok |-> FALSE, v |-> NaN, exc |-> "ValueError"]

\* float(x)
PyFloat(x) ==
    IF x.t = "num" THEN [ok |-> TRUE, v |-> x.v, exc |-> "none"]
    ELSE IF x.t = "bool"
         THEN [ok |-> TRUE, v |-> IF x.b THEN One ELSE Zero, exc |-> "none"]
    ELSE IF x.t = "str" THEN ParseFloat(x.s)
    ELSE [ok |-> FALSE, v |-> NaN, exc |-> "TypeError"]

(***************************************************************************)
(* EnhancedBillingParser._parse_csv_billing on the table pandas read:      *)
(* df is [columns, rows], a row has one cell per column.                   *)
(***************************************************************************)
IsCostColumn(col) ==
    Contains(scost, Lower(col)) \/ Contains(samount, Lower(col))
IsServiceColumn(col) ==
    Contains(sservice, Lower(col)) \/ Contains(sproduct, Lower(col))

\* cost_columns and service_columns, as column positions in column order
CostColumns(columns) ==
    SelectSeq([i \in DOMAIN columns |-> i], LAMBDA i : IsCostColumn(columns[i]))
ServiceColumns(columns) ==
    SelectSeq([i \in DOMAIN columns |-> i], LAMBDA i : IsServiceColumn(columns[i]))

\* cost_value of a row: the sum of float(cell) over its non-empty cost cells
RECURSIVE RowCost(_, _)
RowCost(row, cost_columns) ==
    IF cost_columns = << >> THEN Zero
    ELSE LET cell == row[Head(cost_columns)]
         IN  FAdd(IF cell.t # "na" THEN PyFloat(cell).v ELSE Zero,
                  RowCost(row, Tail(cost_columns)))

\* float(row[cost_col]) raises for some non-empty cost cell
RowCostRaises(row, cost_columns) ==
    \E i \in DOMAIN cost_columns :
        LET cell == row[cost_columns[i]] IN cell.t # "na" /\ ~PyFloat(cell).ok

\* service_name of a row: the first non-empty service cell, else "Unknown"
RECURSIVE RowService(_, _)
RowService(row, service_columns) ==
    IF service_columns = << >> THEN sUnknown
    ELSE IF row[Head(service_columns)].t # "na"
         THEN row[Head(service_columns)].s
         ELSE RowService(row, Tail(service_columns))

\* the loop over the rows; acc is [total_cost, services]
RECURSIVE SumRows(_, _, _, _)
SumRows(acc, rows, cost_columns, service_columns) ==
    IF rows = << >> THEN acc
    ELSE LET cost_value == RowCost(Head(rows), cost_columns)
             service_name == RowService(Head(rows), service_columns)
             before == IF HasKey(acc.services, service_name)
                       THEN Get(acc.services, service_name) ELSE Zero
         IN  SumRows([total_cost |-> FAdd(acc.total_cost, cost_value),
                      services |-> DictSet(acc.services, service_name,
                                           FAdd(before, cost_value))],
                     Tail(rows), cost_columns, service_columns)

\* the (total_cost, services) the rows decode to
DecodeCsv(df) ==
    SumRows([total_cost |-> Zero, services |-> << >>], df.rows,
            CostColumns(df.columns),
            ServiceColumns(df.columns))

ParseCsvBillingOutcome(df) ==
    LET cost_columns == CostColumns(df.columns)
        decoded == DecodeCsv(df)
        analysis == AnalyzeCostsOutcome(decoded.total_cost, Keys(decoded.services),
                                        "us-east-1", "mixed", "starter")
        failed == [kind |-> "raise", exc |-> "ValueError"]
    IN  IF cost_columns = << >> THEN failed
        ELSE IF \E i \in DOMAIN df.rows : RowCostRaises(df.rows[i], cost_columns)
             THEN failed
        ELSE IF analysis.kind = "raise" THEN failed
        ELSE analysis

(***************************************************************************)
(* EnhancedBillingParser._parse_json_billing on the document json.loads    *)
(* read.  A document is [json, total, services, bills, resultsByTime,      *)
(* others]: json is "malformed" (json.loads raises), "array" (the top      *)
(* level is no object) or "object"; for an object, total is the value of   *)
(* its key "total", services, bills and resultsByTime are [present, items] *)
(* for its keys of these names, and others are its remaining entries in    *)
(* the order of the text.  Keys of the decoded services are values.        *)
(***************************************************************************)
NoItems == [present |-> FALSE, items |-> << >>]
Items(items) == [present |-> TRUE, items |-> items]
Object(total, services, bills, resultsByTime, others) ==
    [json |-> "object", total |-> total, services |-> services, bills |-> bills,
     resultsByTime |-> resultsByTime, others |-> others]
NotObject(json) ==
    [json |-> json, total |-> Absent, services |-> NoItems, bills |-> NoItems,
     resultsByTime |-> NoItems, others |-> << >>]

Raise(exc) == [kind |-> "raise", exc |-> exc]
\* the dict the JSON decoders return
Decoded(total_cost, services, analysis_type) ==
    [kind |-> "decoded",
     value |-> [total_cost |-> total_cost, services |-> services,
                analysis_type |-> analysis_type]]

\* dict.get(key, default) for a value that is Absent when the key is not
\* in the dict
GetOr(value, default) == IF value.t = "absent" THEN default ELSE value

\* services[service] = services.get(service, 0) + cost
AddCost(services, service, cost) ==
    DictSet(services, service,
            FAdd(IF HasKey(services, service) THEN Get(services, service) ELSE Zero,
                 cost))

\* EnhancedBillingParser._analyze_from_total
AnalyzeFromTotal(data) ==
    Decoded(GetOr(data.total, Num(Zero)), data.services.items, "total_based")

\* the loop of _analyze_from_bills; acc is [exc, total, services]
RECURSIVE SumBills(_, _)
SumBills(acc, bills) ==
    IF bills = << >> \/ acc.exc # "none" THEN acc
    ELSE LET bill == Head(bills)
             cost == PyFloat(GetOr(bill.amount, Num(Zero)))
             service == GetOr(bill.service, Str(sUnknown))
         IN  SumBills(
                 IF ~cost.ok THEN [acc EXCEPT !.exc = cost.exc]
                 ELSE IF service.t = "list" THEN [acc EXCEPT !.exc = "TypeError"]
                 ELSE [exc |-> "none", total |-> FAdd(acc.total, cost.v),
                       services |-> AddCost(acc.services, service, cost.v)],
                 Tail(bills))

\* EnhancedBillingParser._analyze_from_bills
AnalyzeFromBills(bills) ==
    LET acc == SumBills([exc |-> "none", total |-> Zero, services |-> << >>], bills)
    IN  IF acc.exc # "none" THEN Raise(acc.exc)
        ELSE Decoded(Num(acc.total), acc.services, "bills_based")

\* the metrics of all groups of all results, in the order of the three
\* nested loops, each with the keys of its group
GroupMetrics(group) ==
    [i \in DOMAIN group.metrics |->
        [keys |-> group.keys, metric |-> group.metrics[i][2]]]
RECURSIVE ResultMetrics(_)
ResultMetrics(groups) ==
    IF groups = << >> THEN << >>
    ELSE GroupMetrics(Head(groups)) \o ResultMetrics(Tail(groups))
RECURSIVE AllMetrics(_)
AllMetrics(results) ==
    IF results = << >> THEN << >>
    ELSE ResultMetrics(Head(results).groups) \o AllMetrics(Tail(results))

\* the body of the innermost loop of _analyze_from_cost_explorer
RECURSIVE SumMetrics(_, _)
SumMetrics(acc, metrics) ==
    IF metrics = << >> \/ acc.exc # "none" THEN acc
    ELSE LET keys == Head(metrics).keys
             amount == PyFloat(GetOr(Head(metrics).metric.amount, Num(Zero)))
         IN  SumMetrics(
                 IF ~amount.ok THEN [acc EXCEPT !.exc = amount.exc]
                 ELSE IF keys.present /\ keys.items = << >>
                      THEN [acc EXCEPT !.exc = "IndexError"]
                 ELSE [exc |-> "none", total |-> FAdd(acc.total, amount.v),
                       services |->
                           AddCost(acc.services,
                                   Str(IF keys.present THEN keys.items[1]
                                       ELSE sUnknown),
                                   amount.v)],
                 Tail(metrics))

\* EnhancedBillingParser._analyze_from_cost_explorer
AnalyzeFromCostExplorer(data) ==
    LET acc == SumMetrics([exc |-> "none", total |-> Zero, services |-> << >>],
                          AllMetrics(data.resultsByTime.items))
    IN  IF acc.exc # "none" THEN Raise(acc.exc)
        ELSE Decoded(Num(acc.total), acc.services, "cost_explorer")

\* isinstance(value, (int, float)): a bool is an int
IsNumber(value) == value.t \in {"num", "bool"}

\* the loop of _analyze_generic_json over data.items(); acc is
\* [total, services]
RECURSIVE SumEntries(_, _)
SumEntries(acc, entries) ==
    IF entries = << >> THEN acc
    ELSE LET key == Head(entries)[1]
             value == Head(entries)[2]
         IN  SumEntries(
                 IF IsNumber(value)
                 THEN [total |-> FAdd(acc.total, PyFloat(value).v),
                       services |-> DictSet(acc.services, Str(key), PyFloat(value).v)]
                 ELSE acc,
                 Tail(entries))

\* EnhancedBillingParser._analyze_generic_json; an entry "services" holds
\* an object, which is no number
AnalyzeGenericJson(data) ==
    LET acc == SumEntries([total |-> Zero, services |-> << >>], data.others)
    IN  Decoded(Num(acc.total), acc.services, "generic")

\* EnhancedBillingParser._parse_json_billing
ParseJsonBillingOutcome(data) ==
    IF data.json = "malformed" THEN Raise("ValueError")
    ELSE IF data.json # "object" THEN Raise("ValueError")
    ELSE IF data.total.t # "absent" THEN AnalyzeFromTotal(data)
    ELSE IF data.bills.present THEN AnalyzeFromBills(data.bills.items)
    ELSE IF data.resultsByTime.present THEN AnalyzeFromCostExplorer(data)
    ELSE AnalyzeGenericJson(data)

\* EnhancedBillingParser._parse_excel_billing: the statements of
\* _parse_csv_billing on the table pandas read from the workbook
ParseExcelBillingOutcome(df) == ParseCsvBillingOutcome(df)

s_json == <<".", "j", "s", "o", "n">>
s_csv == <<".", "c", "s", "v">>
s_xlsx == <<".", "x", "l", "s", "x">>

\* str.endswith(suffix)
EndsWith(s, suffix) ==
    /\ Len(suffix) <= Len(s)
    /\ SubSeq(s, Len(s) - Len(suffix) + 1, Len(s)) = suffix

\* EnhancedBillingParser.parse_billing_file: a file is [filename, data, df],
\* data what json.loads and df what pandas make of its content; every
\* exception leaves as Exception("Failed to parse billing file: ...")
ParseBillingFileOutcome(file) ==
    LET outcome ==
            IF EndsWith(file.filename, s_json)
            THEN ParseJsonBillingOutcome(file.data)
            ELSE IF EndsWith(file.filename, s_csv)
            THEN ParseCsvBillingOutcome(file.df)
            ELSE IF EndsWith(file.filename, s_xlsx)
            THEN ParseExcelBillingOutcome(file.df)
            ELSE Raise("ValueError")
    IN  IF outcome.kind = "raise" THEN Raise("Exception") ELSE outcome

(***************************************************************************)
(* Flask app: auth_required and POST /api/analyze.                         *)
(* A request is [session, json_ok, data]: session is the set of keys of    *)
(* the session cookie, json_ok says whether the body parses as a JSON      *)
(* object, data has the values of the keys the handler reads.  The         *)
(* description texts of the recommendations are left out.                  *)
(***************************************************************************)
FlaskBaseSavingsRate(workload_type) ==
    IF workload_type = "compute" THEN R(45, 100)
    ELSE IF workload_type = "storage" THEN R(40, 100)
    ELSE R(35, 100)

FlaskRecommendation(title, savings, priority) ==
    [title |-> title, savings |-> savings, priority |-> priority]

\* the list the handler returns: three fixed entries, then the entry of
\* the workload type
FlaskRecommendations(monthly_bill, workload_type) ==
    << FlaskRecommendation("Reserved Instances",
           Round2(FMul(monthly_bill, R(15, 100))), "High"),
       FlaskRecommendation("Right-size EC2 Instances",
           Round2(FMul(monthly_bill, R(12, 100))), "Medium"),
       FlaskRecommendation("S3 Storage Class Optimization",
           Round2(FMul(monthly_bill, R(8, 100))), "Low") >>
    \o
    (IF workload_type = "compute"
     THEN << FlaskRecommendation("Spot Instances",
                 Round2(FMul(monthly_bill, R(20, 100))), "High") >>
     ELSE IF workload_type = "storage"
     THEN << FlaskRecommendation("S3 Intelligent Tiering",
                 Round2(FMul(monthly_bill, R(25, 100))), "High") >>
     ELSE IF workload_type = "data"
     THEN << FlaskRecommendation("Data Pipeline Optimization",
                 Round2(FMul(monthly_bill, R(18, 100))), "Medium") >>
     ELSE << >>)

\* optimized_bill = monthly_bill - potential_savings
FlaskOptimizedBill(monthly_bill, potential_savings) ==
    FSub(monthly_bill, potential_savings)

JsonError(detail) ==
    [kind |-> "json", body |-> [status |-> "error", detail |-> detail]]

\* the body of analyze(), inside its try
FlaskAnalyzeBody(req) ==
    LET data == req.data
        bill_value == IF data.monthlyBill.t = "absent" THEN Num(Zero)
                      ELSE data.monthlyBill
        converted == PyFloat(bill_value)
        monthly_bill == converted.v
        workload_type == data.workloadType
        potential_savings ==
            Round2(FMul(monthly_bill, FlaskBaseSavingsRate(workload_type)))
    IN  IF ~req.json_ok THEN JsonError("Analysis failed: BadRequest")
        ELSE IF ~converted.ok
             THEN IF converted.exc = "ValueError"
                  THEN JsonError("Invalid input data. Please check your values.")
                  ELSE JsonError("Analysis failed: TypeError")
        \* data.get('services', '').split(',')
        ELSE IF data.services.t \notin {"absent", "str"}
             THEN JsonError("Analysis failed: AttributeError")
        ELSE IF FLe(monthly_bill, Zero)
             THEN JsonError("Monthly bill must be greater than $0")
        ELSE [kind |-> "json",
              body |-> [status |-> "success",
                        current_bill |-> monthly_bill,
                        potential_savings |-> potential_savings,
                        optimized_bill |->
                            FlaskOptimizedBill(monthly_bill, potential_savings),
                        recommendations |->
                            FlaskRecommendations(monthly_bill, workload_type)]]

\* auth_required around analyze()
FlaskAnalyzeOutcome(req) ==
    IF "user_id" \notin req.session
    THEN [kind |-> "redirect", to |-> "/login"]
    ELSE FlaskAnalyzeBody(req)

(***************************************************************************)
(* The inputs the model draws.                                             *)
(***************************************************************************)
sec2_instances == <<"e", "c", "2", " ", "i", "n", "s", "t", "a", "n", "c", "e", "s">>
sEC2_instances == <<"E", "C", "2", " ", "i", "n", "s", "t", "a", "n", "c", "e", "s">>
sBlank == <<" ", "\t">>
sCompute_Storage_Database == <<"C", "o", "m", "p", "u", "t", "e", " ", "S", "t", "o", "r", "a", "g", "e", " ", "D", "a", "t", "a", "b", "a", "s", "e">>
sinvalid == <<"i", "n", "v", "a", "l", "i", "d">>
s1250 == <<"1", "2", "5", "0">>
s12_5 == <<" ", "1", "2", ".", "5">>
sInf == <<"-", "I", "n", "f">>
sNaN == <<"N", "a", "N">>
hDate == <<"D", "a", "t", "e">>
hCost == <<"C", "o", "s", "t">>
hService == <<"S", "e", "r", "v", "i", "c", "e">>
hProduct == <<"P", "r", "o", "d", "u", "c", "t", " ", "N", "a", "m", "e">>
hAmount == <<"U", "n", "b", "l", "e", "n", "d", "e", "d", " ", "A", "m", "o", "u", "n", "t">>

ServiceNames ==
    {sEC2, sec2_instances, sS3, sRDS, sLambda, sCompute_Storage_Database, << >>}
\* one service in three spellings
SpellingLists == {<<sEC2, sec2, sEC2_instances>>}
\* a service name of whitespace only
BlankLists == {<<sBlank>>, <<sEC2, sBlank>>}
ServiceLists ==
    UNION {[1 .. n -> ServiceNames] : n \in 0 .. MaxServices}
    \cup {[i \in 1 .. n |-> name] : n \in 1 .. MaxRepeat, name \in ServiceNames}
    \cup SpellingLists \cup BlankLists
Bills == {R(-100, 1), Zero, R(1000, 1), R(5000, 1)}
Workloads == {"web", "data", "ml", "storage", "compute", "mixed"}
Plans == {"starter", "professional", "enterprise"}
Regions == {"us-east-1"}

CsvHeaders == {<<hDate>>, <<hCost>>, <<hService, hCost>>, <<hProduct, hAmount>>}
CellsFor(col) ==
    IF IsCostColumn(col) THEN {NA, Num(R(-100, 1)), Num(Zero), Num(R(1000, 1))}
    ELSE IF IsServiceColumn(col) THEN {NA, Str(sEC2), Str(sS3)}
    ELSE {NA}
CsvRows(columns) ==
    {row \in [DOMAIN columns -> UNION {CellsFor(columns[i]) : i \in DOMAIN columns}] :
        \A i \in DOMAIN columns : row[i] \in CellsFor(columns[i])}
CsvTables ==
    UNION {[columns : {columns},
            rows : UNION {[1 .. n -> CsvRows(columns)] : n \in 0 .. MaxRows}] :
           columns \in CsvHeaders}

\* billing files
sbill_json == <<"b", "i", "l", "l", ".", "j", "s", "o", "n">>
sbill_csv == <<"b", "i", "l", "l", ".", "c", "s", "v">>
sbill_xlsx == <<"b", "i", "l", "l", ".", "x", "l", "s", "x">>
sbill_txt == <<"b", "i", "l", "l", ".", "t", "x", "t">>
sbill_JSON == <<"b", "i", "l", "l", ".", "J", "S", "O", "N">>

BillAmounts == {Absent, Num(R(600, 1)), Str(s12_5), Str(sinvalid)}
BillRecords == [amount : BillAmounts, service : {Absent, Str(sEC2), Str(sS3)}]
BillsDocs ==
    {Object(Absent, NoItems, Items(bills), NoItems, << >>) :
        bills \in UNION {[1 .. n -> BillRecords] : n \in 0 .. MaxRows}}

MetricAmounts == {Absent, Num(R(600, 1)), Str(sinvalid)}
Groups ==
    [keys : {NoItems, Items(<<sEC2>>), Items(<< >>)},
     metrics : {<< >>}
               \cup {<< <<"UnblendedCost", [amount |-> a]>> >> : a \in MetricAmounts}]
CostExplorerDocs ==
    {Object(Absent, NoItems, NoItems, Items(<<[groups |-> groups]>>), << >>) :
        groups \in UNION {[1 .. n -> Groups] : n \in 0 .. MaxRows}}
    \cup {Object(Absent, NoItems, NoItems, Items(<< >>), << >>)}

GenericValues == {Num(R(600, 1)), Str(sinvalid), Bool(TRUE), Null}
GenericDocs ==
    {Object(Absent, NoItems, NoItems, NoItems, others) :
        others \in {<< >>}
                   \cup {<< <<sEC2, v>> >> : v \in GenericValues}
                   \cup {<< <<sEC2, v>>, <<sS3, w>> >> :
                            v \in GenericValues, w \in GenericValues}}

TotalDocs ==
    {Object(total, services, bills, NoItems, << >>) :
        total \in {Num(R(1000, 1)), Num(Zero), Str(s1250), Null},
        services \in {NoItems, Items(<< >>), Items(<< <<Str(sEC2), R(600, 1)>> >>)},
        bills \in {NoItems,
                   Items(<<[amount |-> Num(R(600, 1)), service |-> Str(sEC2)]>>)}}

JsonDocs ==
    TotalDocs \cup BillsDocs \cup CostExplorerDocs \cup GenericDocs
    \cup {NotObject("malformed"), NotObject("array")}

EmptyTable == [columns |-> << >>, rows |-> << >>]
BillingFiles ==
    [filename : {sbill_json}, data : JsonDocs, df : {EmptyTable}]
    \cup [filename : {sbill_csv, sbill_xlsx}, data : {NotObject("malformed")},
          df : CsvTables]
    \cup [filename : {sbill_txt, sbill_JSON},
          data : {NotObject("malformed"),
                  Object(Num(R(1000, 1)), NoItems, NoItems, NoItems, << >>)},
          df : {EmptyTable}]

MonthlyBillValues ==
    {Absent, Null, Bool(TRUE), List,
     Num(Zero), Num(R(-100, 1)), Num(R(1, 100)), Num(R(1250, 1)), Num(R(5000, 1)),
     Str(sinvalid), Str(<< >>), Str(s1250), Str(s12_5), Str(snan), Str(sNaN),
     Str(sinf), Str(sInf)}
FlaskRequests ==
    [session : {{}, {"user_id", "email"}},
     json_ok : BOOLEAN,
     data : [monthlyBill : MonthlyBillValues,
             services : {Absent, Str(sEC2), List},
             workloadType : {"", "web", "data", "ml", "storage", "compute"}]]

(***************************************************************************)
(* EnhancedBillingParser.__init__ and the result dict's analysis_date.     *)
(***************************************************************************)
MaxTasks == 2
MaxCalls == 3
MaxClock == 2

\* EnhancedBillingParser._load_optimization_rules
LoadOptimizationRules ==
    << <<"ec2", << <<"reserved_instance_savings", R(15, 100)>>,
                   <<"spot_instance_savings", R(20, 100)>>,
                   <<"rightsizing_savings", R(12, 100)>>,
                   <<"scheduled_shutdown_savings", R(8, 100)>> >> >>,
       <<"s3", << <<"storage_class_optimization", R(10, 100)>>,
                  <<"lifecycle_policy_savings", R(15, 100)>>,
                  <<"compression_savings", R(5, 100)>> >> >>,
       <<"rds", << <<"reserved_instance_savings", R(18, 100)>>,
                   <<"rightsizing_savings", R(10, 100)>>,
                   <<"storage_optimization", R(8, 100)>> >> >>,
       <<"lambda", << <<"memory_optimization", R(15, 100)>>,
                      <<"timeout_optimization", R(5, 100)>> >> >>,
       <<"cloudfront", << <<"cache_optimization", R(12, 100)>>,
                          <<"price_class_optimization", R(8, 100)>> >> >> >>

\* the returned dict with "analysis_date": datetime.now().isoformat()
Dated(outcome, date) ==
    IF outcome.kind = "result"
    THEN [outcome EXCEPT !.value =
            [f \in DOMAIN outcome.value \cup {"analysis_date"} |->
                IF f = "analysis_date" THEN date ELSE outcome.value[f]]]
    ELSE outcome

(***************************************************************************)
(* The accounts, browsers and requests the Flask app is given.  The app    *)
(* runs on its SQLite database (DATABASE_URL unset): a new row takes the   *)
(* largest id of its table plus one.                                       *)
(***************************************************************************)
MaxTodos == 1

\* hashlib.sha256(password.encode()).hexdigest()
Sha256(password) == <<"sha256", password>>

\* the browsers, each with its own cookie jar
Clients == {"A", "B"}
\* Python's None where an id is expected
None == 0
\* a session cookie without user_id
NoSession == [user_id |-> None, email |-> ""]

FlaskEmails == {"ann@example.com", "bob@example.com"}
FlaskPasswords == {"ann-secret", "guess"}
\* request.form: both fields, or the password field missing
Forms ==
    [email : FlaskEmails, password : FlaskPasswords]
    \cup [email : FlaskEmails]

\* protected routes whose bodies write nothing (POST /api/upload is sent
\* without files)
ReadingRoutes == {"/dashboard", "/success", "/api/user-data", "/api/upload"}

\* os.environ as subscribe reads it; an unset variable is absent
Environs ==
    {<< >>,
     << <<"STRIPE_SECRET_KEY", "None">>,
        <<"STRIPE_STARTER_PRICE_ID", "price_1Abc">> >>,
     << <<"STRIPE_SECRET_KEY", "sk_live_1">> >>,
     << <<"STRIPE_SECRET_KEY", "sk_live_1">>,
        <<"STRIPE_STARTER_PRICE_ID", "price_1Abc">>,
        <<"STRIPE_ENTERPRISE_PRICE_ID", "price_enterprise_placeholder">> >>}
\* request.json of subscribe: a plan, or no plan key
SubscribeBodies ==
    [plan : {"starter", "professional", "enterprise", "gold"}]
    \cup [tier : {"starter"}]

\* request.json of POST /api/todos and of PUT /api/todos/<id>
sRightsize == "Right-size EC2 instances"
TodoBodies ==
    [title : {sRightsize}]
    \cup [title : {sRightsize}, status : {"completed", "in_progress"}]
    \cup [title : {""}, status : {"pending"}]
StatusBodies ==
    [status : {"pending", "completed", "archived"}] \cup [done : {TRUE}]
\* NULL in a timestamp column, and a timestamp
NULL == 0
Timestamp == 1

\* two registered accounts, each signed in from its own browser
SignedInUsers ==
    << [id |-> 1, email |-> "ann@example.com", password |-> Sha256("ann-secret")],
       [id |-> 2, email |-> "bob@example.com", password |-> Sha256("guess")] >>
SignedInSession ==
    [c \in Clients |->
        IF c = "A" THEN [user_id |-> 1, email |-> "ann@example.com"]
        ELSE [user_id |-> 2, email |-> "bob@example.com"]]

(***************************************************************************)
(* The accounts, requests and Stripe events the API backend is given.      *)
(***************************************************************************)
MaxAnalyses == 1

\* JWTHandler.hash_password: the stored value is not the password
HashPassword(password) == <<"$2b$12$", password>>

\* JWTHandler.verify_password
VerifyPassword(plain_password, hashed_password) ==
    hashed_password = HashPassword(plain_password)

UserIds == {1, 2}
Emails == {"ann@example.com", "bob@example.com", "eve@example.com"}
Passwords == {"ann-secret", "bob-secret", "guess"}

\* the rows of the users table when the service starts (create_tables keeps
\* the rows the database already has); last_analysis 0 is NULL
StoredUsers ==
    [id \in UserIds |->
        [email |-> IF id = 1 THEN "ann@example.com" ELSE "bob@example.com",
         hashed_password |->
            HashPassword(IF id = 1 THEN "ann-secret" ELSE "bob-secret"),
         subscription_plan |-> IF id = 1 THEN "starter" ELSE "professional",
         subscription_status |-> "inactive",
         last_analysis |-> 0]]

NoToken == [user_id |-> None, email |-> ""]

\* JWTHandler.create_token: the payload the signed token carries
CreateToken(user_id, email) == [user_id |-> user_id, email |-> email]

\* the uploads a client sends
UploadFiles ==
    {[filename |-> sbill_txt, data |-> NotObject("malformed"), df |-> EmptyTable],
     [filename |-> sbill_JSON,
      data |-> Object(Num(R(1000, 1)), NoItems, NoItems, NoItems, << >>),
      df |-> EmptyTable],
     [filename |-> sbill_json, data |-> NotObject("malformed"), df |-> EmptyTable],
     [filename |-> sbill_json,
      data |-> Object(Num(R(1000, 1)), NoItems, NoItems, NoItems, << >>),
      df |-> EmptyTable],
     [filename |-> sbill_csv, data |-> NotObject("malformed"),
      df |-> [columns |-> <<hDate>>, rows |-> << <<NA>> >>]],
     [filename |-> sbill_csv, data |-> NotObject("malformed"),
      df |-> [columns |-> <<hService, hCost>>,
              rows |-> << <<Str(sEC2), Num(R(1000, 1))>> >>]]}

\* CostAnalysisRequest: monthly_bill > 0, workload_type of WorkloadType
AnalysisRequests ==
    [monthly_bill : {R(1000, 1)}, services : {<<sEC2>>, <<sBlank>>},
     region : {"us-east-1"}, workload_type : {"compute"}]

\* Stripe events and the signatures their senders attach
webhook_secret == "whsec_configured"
EventTypes ==
    {"payment_intent.succeeded", "customer.subscription.deleted", "invoice.paid"}
\* user_id None: the event's metadata has no user_id; 3: no such row
Payloads == [type : EventTypes, user_id : {None, 1, 2, 3}]
Hmac(payload, secret) == [signed |-> payload, secret |-> secret]
NoHeader == [signed |-> [type |-> "", user_id |-> None], secret |-> ""]
SigHeaders(payload) ==
    {Hmac(payload, webhook_secret), Hmac(payload, "whsec_forged"),
     Hmac([payload EXCEPT !.user_id = 3 - payload.user_id], webhook_secret),
     NoHeader}

(***************************************************************************)
(* The state machine.  The estimators keep no state between calls: the     *)
(* state is the call in progress and what it returned, until the caller    *)
(* has taken the answer.                                                   *)
(***************************************************************************)
VARIABLES call, ret, parser, now, tasks, returned,
          users, cost_analyses, tokens, exchange,
          flask_users, session, user_sessions, user_todos, checkout_sessions,
          reply

\* the shared EnhancedBillingParser, the clock, the calls running on the
\* parser and the calls that have ended on it
backend == <<users, cost_analyses, tokens, exchange>>
flask == <<flask_users, session, user_sessions, user_todos, checkout_sessions,
           reply>>
web == <<backend, flask>>
shared == <<parser, now, tasks, returned, web>>
vars == <<call, ret, parser, now, tasks, returned, web>>

Init ==
    /\ call = [op |-> "none"]
    /\ ret = [kind |-> "none"]
    /\ parser = [aws_pricing_cache |-> << >>,
                 optimization_rules |-> LoadOptimizationRules]
    /\ now = 0
    /\ tasks = [t \in 1 .. MaxTasks |-> [pc |-> "idle"]]
    /\ returned = << >>
    /\ users = StoredUsers
    /\ cost_analyses = << >>
    /\ tokens = {}
    /\ exchange = [request |-> [op |-> "none"], status |-> 0, body |-> ""]
    /\ flask_users = << >>
    /\ session = [c \in Clients |-> NoSession]
    /\ user_sessions = {}
    /\ user_todos = << >>
    /\ checkout_sessions = {}
    /\ reply = [request |-> [route |-> "none"], kind |-> "none", body |-> ""]

\* EnhancedBillingParser.analyze_costs(monthly_bill, services, region,
\* workload_type, user_plan)
AnalyzeCosts ==
    /\ call.op = "none"
    /\ \E monthly_bill \in Bills, services \in ServiceLists, region \in Regions,
          workload_type \in Workloads, user_plan \in Plans :
        /\ call' = [op |-> "analyze_costs", monthly_bill |-> monthly_bill,
                    services |-> services, region |-> region,
                    workload_type |-> workload_type, user_plan |-> user_plan]
        /\ ret' = Dated(AnalyzeCostsOutcome(monthly_bill, services, region,
                                            workload_type, user_plan), now)
    /\ UNCHANGED shared

\* EnhancedBillingParser._parse_csv_billing(content), content read as df
ParseCsvBilling ==
    /\ call.op = "none"
    /\ \E df \in CsvTables :
        /\ call' = [op |-> "parse_csv_billing", df |-> df]
        /\ ret' = Dated(ParseCsvBillingOutcome(df), now)
    /\ UNCHANGED shared

\* EnhancedBillingParser.parse_billing_file(file_content, filename)
ParseBillingFile ==
    /\ call.op = "none"
    /\ \E file \in BillingFiles :
        /\ call' = [op |-> "parse_billing_file", file |-> file]
        /\ ret' = Dated(ParseBillingFileOutcome(file), now)
    /\ UNCHANGED shared

\* POST /api/analyze of the Flask app
FlaskAnalyze ==
    /\ call.op = "none"
    /\ \E req \in FlaskRequests :
        /\ call' = [op |-> "flask_analyze", req |-> req]
        /\ ret' = FlaskAnalyzeOutcome(req)
    /\ UNCHANGED shared

\* the caller takes the answer; the next call can start
Return ==
    /\ call.op # "none"
    /\ call' = [op |-> "none"]
    /\ ret' = [kind |-> "none"]
    /\ UNCHANGED shared

Next ==
    \/ AnalyzeCosts
    \/ ParseCsvBilling
    \/ ParseBillingFile
    \/ FlaskAnalyze
    \/ Return

Spec == Init /\ [][Next]_vars

(***************************************************************************)
(* Calls of analyze_costs on the one parser of the application, running    *)
(* concurrently: each call runs its statements in order and the calls      *)
(* interleave between statements.                                          *)
(***************************************************************************)
SharedCalls ==
    { [monthly_bill |-> R(1000, 1), services |-> << >>, region |-> "us-east-1",
       workload_type |-> "web", user_plan |-> "starter"],
      [monthly_bill |-> R(5000, 1), services |-> <<sEC2, sLambda>>,
       region |-> "us-east-1", workload_type |-> "compute",
       user_plan |-> "enterprise"],
      [monthly_bill |-> R(1000, 1), services |-> <<sEC2, sBlank>>,
       region |-> "us-east-1", workload_type |-> "data",
       user_plan |-> "professional"] }

Running == {t \in DOMAIN tasks : tasks[t].pc # "idle"}

\* a call ends: the caller gets outcome; concurrent tells whether another
\* call is in progress at that moment
Finish(t, outcome) ==
    /\ tasks' = [tasks EXCEPT ![t] = [pc |-> "idle"]]
    /\ returned' = Append(returned,
                          [args |-> tasks[t].args, outcome |-> outcome,
                           concurrent |-> Running \ {t} # {}])

\* app.state.billing_parser.analyze_costs(...) is entered
CallAnalyzeCosts(t) ==
    /\ tasks[t].pc = "idle"
    /\ Len(returned) + Cardinality(Running) < MaxCalls
    /\ \E args \in SharedCalls :
        tasks' = [tasks EXCEPT ![t] = [pc |-> "potential_savings", args |-> args]]
    /\ UNCHANGED <<web, call, ret, parser, now, returned>>

\* the savings kept in the parser's cache under the region: a call finds
\* the value the call before it left there
StepPotentialSavingsCached(t) ==
    /\ tasks[t].pc = "potential_savings"
    /\ LET args == tasks[t].args
       IN  IF SplitRaises(args.services)
           THEN Finish(t, [kind |-> "raise", exc |-> "IndexError"])
                /\ UNCHANGED parser
           ELSE LET computed ==
                        CalculatePotentialSavings(args.monthly_bill, args.services,
                                                  args.workload_type)
                    potential_savings ==
                        IF HasKey(parser.aws_pricing_cache, args.region)
                        THEN Get(parser.aws_pricing_cache, args.region)
                        ELSE computed
                IN  /\ tasks' = [tasks EXCEPT ![t] =
                          [pc |-> "recommendations", args |-> args,
                           potential_savings |-> potential_savings,
                           optimized_cost |->
                               OptimizedCost(args.monthly_bill, potential_savings),
                           wasted_spend |-> FMul(args.monthly_bill, R(22, 100))]]
                    /\ parser' = [parser EXCEPT !.aws_pricing_cache =
                                      DictSet(@, args.region, computed)]
                    /\ UNCHANGED returned
    /\ UNCHANGED <<web, call, ret, now>>

\* potential_savings = self._calculate_potential_savings(...)
\* optimized_cost = ...; wasted_spend = ...
StepPotentialSavings(t) ==
    /\ tasks[t].pc = "potential_savings"
    /\ LET args == tasks[t].args
       IN  IF SplitRaises(args.services)
           THEN Finish(t, [kind |-> "raise", exc |-> "IndexError"])
           ELSE LET potential_savings ==
                        CalculatePotentialSavings(args.monthly_bill, args.services,
                                                  args.workload_type)
                IN  /\ tasks' = [tasks EXCEPT ![t] =
                          [pc |-> "recommendations", args |-> args,
                           potential_savings |-> potential_savings,
                           optimized_cost |->
                               OptimizedCost(args.monthly_bill, potential_savings),
                           wasted_spend |-> FMul(args.monthly_bill, R(22, 100))]]
                    /\ UNCHANGED returned
    /\ UNCHANGED <<web, call, ret, parser, now>>

\* recommendations = self._generate_recommendations(...)
StepRecommendations(t) ==
    /\ tasks[t].pc = "recommendations"
    /\ LET args == tasks[t].args
       IN  tasks' = [tasks EXCEPT ![t] =
               [pc |-> "confidence_score", args |-> args,
                potential_savings |-> tasks[t].potential_savings,
                optimized_cost |-> tasks[t].optimized_cost,
                wasted_spend |-> tasks[t].wasted_spend,
                recommendations |->
                    GenerateRecommendations(args.monthly_bill, args.services,
                                            args.workload_type, args.user_plan)]]
    /\ UNCHANGED <<web, call, ret, parser, now, returned>>

\* the score also stored on the parser
StepConfidenceScoreOnSelf(t) ==
    /\ tasks[t].pc = "confidence_score"
    /\ LET args == tasks[t].args
           confidence_score ==
               CalculateConfidenceScore(args.services, args.workload_type,
                                        args.user_plan)
       IN  /\ tasks' = [tasks EXCEPT ![t] =
                 [pc |-> "service_breakdown", args |-> args,
                  potential_savings |-> tasks[t].potential_savings,
                  optimized_cost |-> tasks[t].optimized_cost,
                  wasted_spend |-> tasks[t].wasted_spend,
                  recommendations |-> tasks[t].recommendations,
                  confidence_score |-> confidence_score]]
           /\ parser' = [parser EXCEPT !.aws_pricing_cache =
                             DictSet(@, "confidence_score", confidence_score)]
    /\ UNCHANGED <<web, call, ret, now, returned>>

\* confidence_score = self._calculate_confidence_score(...)
StepConfidenceScore(t) ==
    /\ tasks[t].pc = "confidence_score"
    /\ LET args == tasks[t].args
       IN  tasks' = [tasks EXCEPT ![t] =
               [pc |-> "service_breakdown", args |-> args,
                potential_savings |-> tasks[t].potential_savings,
                optimized_cost |-> tasks[t].optimized_cost,
                wasted_spend |-> tasks[t].wasted_spend,
                recommendations |-> tasks[t].recommendations,
                confidence_score |->
                    CalculateConfidenceScore(args.services, args.workload_type,
                                             args.user_plan)]]
    /\ UNCHANGED <<web, call, ret, parser, now, returned>>

\* service_breakdown = self._simulate_service_breakdown(...)
StepServiceBreakdown(t) ==
    /\ tasks[t].pc = "service_breakdown"
    /\ LET args == tasks[t].args
       IN  tasks' = [tasks EXCEPT ![t] =
               [pc |-> "return", args |-> args,
                potential_savings |-> tasks[t].potential_savings,
                optimized_cost |-> tasks[t].optimized_cost,
                wasted_spend |-> tasks[t].wasted_spend,
                recommendations |-> tasks[t].recommendations,
                confidence_score |-> tasks[t].confidence_score,
                service_breakdown |->
                    SimulateServiceBreakdown(args.monthly_bill, args.services)]]
    /\ UNCHANGED <<web, call, ret, parser, now, returned>>

\* return {...}: the dict is built from the locals and datetime.now(),
\* which reads a time not before the time read last
StepReturn(t) ==
    /\ tasks[t].pc = "return"
    /\ \E date \in now .. MaxClock :
        /\ now' = date
        /\ Finish(t, [kind |-> "result",
                      value |->
                        [current_bill |-> tasks[t].args.monthly_bill,
                         potential_savings |-> tasks[t].potential_savings,
                         optimized_bill |-> tasks[t].optimized_cost,
                         wasted_spend |-> tasks[t].wasted_spend,
                         recommendations |-> tasks[t].recommendations,
                         service_breakdown |-> tasks[t].service_breakdown,
                         confidence_score |-> tasks[t].confidence_score,
                         analysis_date |-> date,
                         region |-> tasks[t].args.region,
                         workload_type |-> tasks[t].args.workload_type]])
    /\ UNCHANGED <<web, call, ret, parser>>

NextShared ==
    \E t \in 1 .. MaxTasks :
        \/ CallAnalyzeCosts(t)
        \/ StepPotentialSavings(t)
        \/ StepRecommendations(t)
        \/ StepConfidenceScore(t)
        \/ StepServiceBreakdown(t)
        \/ StepReturn(t)

SpecShared == Init /\ [][NextShared]_vars

(***************************************************************************)
(* What the claims speak about.                                            *)
(***************************************************************************)
\* ret is a result of analyze_costs, called directly or by the CSV or Excel
\* decoder
Analysed == ret.kind = "result"

\* the arguments analyze_costs was called with
Args ==
    IF call.op \in {"parse_csv_billing", "parse_billing_file"}
    THEN LET df == IF call.op = "parse_csv_billing" THEN call.df ELSE call.file.df
         IN  [monthly_bill |-> DecodeCsv(df).total_cost,
              services |-> Keys(DecodeCsv(df).services),
              workload_type |-> "mixed", user_plan |-> "starter"]
    ELSE [monthly_bill |-> call.monthly_bill, services |-> call.services,
          workload_type |-> call.workload_type, user_plan |-> call.user_plan]

\* analyze_costs returned for a valid bill
AnalysedValid == Analysed /\ FLt(Zero, Args.monthly_bill)

\* the recommendations generated for the call, before the sort and the cut
Generated ==
    UnsortedRecommendations(Args.monthly_bill, Args.services,
                            Args.workload_type, Args.user_plan)

\* the Flask handler answered a logged-in request
FlaskAnswered == call.op = "flask_analyze" /\ ret.kind = "json"
\* ... with a result
FlaskSuccess == FlaskAnswered /\ ret.body.status = "success"
\* ... for a bill that is a positive decimal number
FlaskSuccessValid ==
    FlaskSuccess /\ IsFin(ret.body.current_bill)
                 /\ FLt(Zero, ret.body.current_bill)

\* 0 <= savings <= bill, optimized = bill - savings, 0 <= optimized <= bill
SavingsBound(bill, savings, optimized) ==
    /\ FLe(Zero, savings) /\ FLe(savings, bill)
    /\ optimized = FSub(bill, savings)
    /\ FLe(Zero, optimized) /\ FLe(optimized, bill)

\* C1: for every monthly_bill > 0, both estimators return
\* 0 <= potential_savings <= monthly_bill and
\* optimized_bill = monthly_bill - potential_savings in [0, monthly_bill]
C1_SavingsBound ==
    /\ AnalysedValid =>
         SavingsBound(Args.monthly_bill, ret.value.potential_savings,
                      ret.value.optimized_bill)
    /\ FlaskSuccessValid =>
         SavingsBound(ret.body.current_bill, ret.body.potential_savings,
                      ret.body.optimized_bill)

\* both estimators have answered a valid bill, the richer one at its cap
C1_Witness ==
    \/ /\ AnalysedValid
       /\ FLt(R(15, 10), Multiplier(Args.services, Args.workload_type))
    \/ /\ FlaskSuccessValid
       /\ call.req.data.workloadType = "compute"

\* C2: analyze_costs with monthly_bill <= 0, called directly or through a
\* CSV file whose cost rows total <= 0, fails with a validation error and
\* returns no result (stated for an error of any class)
C2_NonPositiveBillRejected ==
    (/\ call.op \in {"analyze_costs", "parse_csv_billing"}
     /\ call.op = "parse_csv_billing" =>
            CostColumns(call.df.columns) # << >>
     /\ FLe(Args.monthly_bill, Zero))
    => ret.kind = "raise"

\* monthlyBill is zero, negative, non-numeric or absent: a number <= 0, no
\* key, null, a list, or a string that is not the numeral of a number
InvalidMonthlyBill(x) ==
    \/ x.t \in {"absent", "null", "list"}
    \/ x.t = "num" /\ FLe(x.v, Zero)
    \/ x.t = "str" /\ (~ParseFloat(x.s).ok \/ ~IsFin(ParseFloat(x.s).v)
                       \/ FLe(ParseFloat(x.s).v, Zero))

\* C3: for a logged-in session, POST /api/analyze with monthlyBill zero,
\* negative, non-numeric or absent answers status "error" with a detail
\* message and never a result
C3_InvalidBillIsError ==
    (/\ call.op = "flask_analyze"
     /\ "user_id" \in call.req.session
     /\ InvalidMonthlyBill(call.req.data.monthlyBill))
    => (/\ ret.kind = "json"
        /\ ret.body.status = "error"
        /\ DOMAIN ret.body = {"status", "detail"})

\* potential_savings never increases along the list
SortedDesc(recs) ==
    \A i \in 1 .. (Len(recs) - 1) :
        FLe(recs[i + 1].potential_savings, recs[i].potential_savings)

\* C4: the recommendations analyze_costs returns are sorted by
\* potential_savings in non-increasing order and are at most 10
C4_SortedAndCapped ==
    Analysed =>
        /\ SortedDesc(ret.value.recommendations)
        /\ Len(ret.value.recommendations) <= 10

\* more than 10 recommendations were generated, out of order
C4_Witness ==
    /\ AnalysedValid
    /\ Len(Generated) > 10
    /\ ~SortedDesc(Generated)

\* C5: the recommendations of the Flask handler are ordered by descending
\* savings, for every workloadType
C5_FlaskSorted ==
    FlaskSuccessValid =>
        \A i \in 1 .. (Len(ret.body.recommendations) - 1) :
            FLe(ret.body.recommendations[i + 1].savings,
                ret.body.recommendations[i].savings)

\* the multiplier table as the claim reads it: the entry whose name is the
\* upper-cased first token of the service in any letter case, else 1.0
ClaimedServiceFactor(service) ==
    LET hits == {i \in DOMAIN service_multipliers :
                    Upper(service_multipliers[i][1]) = ServiceKey(service)}
    IN  IF hits = {} THEN One
        ELSE service_multipliers[CHOOSE i \in hits : TRUE][2]

RECURSIVE ClaimedServiceProduct(_)
ClaimedServiceProduct(services) ==
    IF services = << >> THEN One
    ELSE FMul(ClaimedServiceFactor(Head(services)),
              ClaimedServiceProduct(Tail(services)))

ClaimedWorkloadFactor(workload_type) ==
    CASE workload_type = "web" -> R(10, 10)
      [] workload_type = "data" -> R(12, 10)
      [] workload_type = "ml" -> R(11, 10)
      [] workload_type = "storage" -> R(13, 10)
      [] workload_type = "compute" -> R(14, 10)
      [] OTHER -> One

\* C6: potential_savings = monthly_bill * 0.25 * min(M, 1.5), M the product
\* of the table multipliers of the declared services (EC2 1.2, S3 1.1,
\* RDS 1.3, Lambda 0.8, CloudFront 1.0, others 1.0) and of the workload
\* multiplier; a declared "Lambda" scales M by 0.8
C6_SavingsFormula ==
    AnalysedValid =>
        ret.value.potential_savings =
            FMul(FMul(Args.monthly_bill, R(25, 100)),
                 FMin(FMul(ClaimedServiceProduct(Args.services),
                           ClaimedWorkloadFactor(Args.workload_type)),
                      R(15, 10)))

ClaimedWorkloadBonus(workload_type) ==
    CASE workload_type = "web" -> R(10, 100)
      [] workload_type = "data" -> R(15, 100)
      [] workload_type = "ml" -> R(5, 100)
      [] workload_type = "storage" -> R(10, 100)
      [] workload_type = "compute" -> R(15, 100)
      [] OTHER -> R(5, 100)

ClaimedPlanBonus(user_plan) ==
    CASE user_plan = "starter" -> Zero
      [] user_plan = "professional" -> R(10, 100)
      [] user_plan = "enterprise" -> R(15, 100)

\* C8: confidence_score = min(0.7 + min(0.05 * len(services), 0.2)
\* + workload_bonus + plan_bonus, 0.95), hence within [0.7, 0.95]
C8_Confidence ==
    Analysed =>
        LET n == Len(Args.services)
            service_bonus == IF n >= 4 THEN R(20, 100) ELSE R(5 * n, 100)
            sum == FAdd(FAdd(FAdd(R(70, 100), service_bonus),
                             ClaimedWorkloadBonus(Args.workload_type)),
                        ClaimedPlanBonus(Args.user_plan))
        IN  /\ ret.value.confidence_score =
                   (IF FLe(sum, R(95, 100)) THEN sum ELSE R(95, 100))
            /\ FLe(R(70, 100), ret.value.confidence_score)
            /\ FLe(ret.value.confidence_score, R(95, 100))

\* a call with more than four services, where both caps take effect
C8_Witness ==
    /\ Analysed
    /\ Len(Args.services) > 4
    /\ Args.workload_type = "compute"
    /\ Args.user_plan = "enterprise"
    /\ ret.value.confidence_score = R(95, 100)

\* recs has an entry with this title and this fraction of the bill
HasRecommendation(recs, title, fraction) ==
    \E i \in DOMAIN recs :
        /\ recs[i].title = title
        /\ recs[i].potential_savings = FMul(Args.monthly_bill, fraction)

HasBaseline(recs) ==
    /\ HasRecommendation(recs, "Reserved Instances", R(15, 100))
    /\ HasRecommendation(recs, "Right-size EC2 Instances", R(12, 100))
    /\ HasRecommendation(recs, "S3 Storage Optimization", R(8, 100))

NamesCompute(services) ==
    \E i \in DOMAIN services :
        \/ Contains(sec2, Lower(services[i]))
        \/ Contains(scompute, Lower(services[i]))

\* C10: for a valid bill the returned recommendations contain Spot
\* Instances, with savings 0.20 * monthly_bill, if and only if the workload
\* is compute and a declared service name contains "ec2" or "compute";
\* (5000, [EC2, Lambda], compute) yields Spot Instances with savings 1000
C10_SpotInstances ==
    AnalysedValid =>
        /\ (\E i \in DOMAIN ret.value.recommendations :
                ret.value.recommendations[i].title = "Spot Instances")
           <=> (Args.workload_type = "compute" /\ NamesCompute(Args.services))
        /\ \A i \in DOMAIN ret.value.recommendations :
               ret.value.recommendations[i].title = "Spot Instances"
               => ret.value.recommendations[i].potential_savings =
                      FMul(Args.monthly_bill, R(20, 100))
        /\ (/\ Args.monthly_bill = R(5000, 1)
            /\ Args.services = <<sEC2, sLambda>>
            /\ Args.workload_type = "compute")
           => HasRecommendation(ret.value.recommendations,
                                "Spot Instances", R(20, 100))

\* the call (5000, [EC2, Lambda], compute) has returned Spot Instances
\* with savings 1000
C10_Witness ==
    /\ AnalysedValid
    /\ Args.monthly_bill = R(5000, 1)
    /\ Args.services = <<sEC2, sLambda>>
    /\ Args.workload_type = "compute"
    /\ \E i \in DOMAIN ret.value.recommendations :
           /\ ret.value.recommendations[i].title = "Spot Instances"
           /\ ret.value.recommendations[i].potential_savings = R(1000, 1)

\* the Auto Scaling recommendation as the code appends it
IsAutoScaling(rec) ==
    /\ rec.title = "Auto Scaling Groups"
    /\ rec.potential_savings = FMul(Args.monthly_bill, R(10, 100))
    /\ rec.priority = "Medium"
    /\ rec.implementation_effort = "Complex"

HasAutoScaling(recs) == \E i \in DOMAIN recs : IsAutoScaling(recs[i])

\* how many of the generated recommendations have savings of at least
\* 0.10 * monthly_bill; Auto Scaling, appended last, sorts behind all of
\* the others of them
AtLeastTenPercent ==
    LET generated == Generated
        tenth == FMul(Args.monthly_bill, R(10, 100))
    IN  Cardinality({i \in DOMAIN generated :
                        FLe(tenth, generated[i].potential_savings)})

RECURSIVE SumValues(_)
SumValues(dict) ==
    IF dict = << >> THEN Zero
    ELSE FAdd(Head(dict)[2], SumValues(Tail(dict)))

\* the six-way split as the claim lists it
ClaimedDefaultSplit(monthly_bill) ==
    << <<sEC2, FMul(monthly_bill, R(40, 100))>>,
       <<sS3, FMul(monthly_bill, R(20, 100))>>,
       <<sRDS, FMul(monthly_bill, R(15, 100))>>,
       <<sLambda, FMul(monthly_bill, R(10, 100))>>,
       <<sCloudFront, FMul(monthly_bill, R(10, 100))>>,
       <<sOther, FMul(monthly_bill, R(5, 100))>> >>

ClaimedDistributionHits(service) ==
    {i \in DOMAIN service_distributions :
        Upper(service_distributions[i][1]) = ServiceKey(service)}

\* the breakdown without its "Other Services" entry
Assigned(breakdown) ==
    SelectSeq(breakdown, LAMBDA e : e[1] # sOtherServices)

\* C13: for a non-empty services list, every declared service whose first
\* whitespace-delimited token names an entry of the distribution table, in
\* any letter case, gets the entry monthly_bill * fraction in
\* service_breakdown, and the unassigned remainder goes to "Other Services"
C13_BreakdownByTable ==
    (AnalysedValid /\ Args.services # << >>) =>
        LET breakdown == ret.value.service_breakdown
            remainder == FSub(Args.monthly_bill, SumValues(Assigned(breakdown)))
        IN  /\ \A k \in DOMAIN Args.services :
                 \A i \in ClaimedDistributionHits(Args.services[k]) :
                     /\ HasKey(breakdown, Args.services[k])
                     /\ Get(breakdown, Args.services[k]) =
                            FMul(Args.monthly_bill, service_distributions[i][2])
            /\ FLt(Zero, remainder) =>
                 /\ HasKey(breakdown, sOtherServices)
                 /\ Get(breakdown, sOtherServices) = remainder


\* C14: for every monthly_bill > 0 and every services list, lists naming
\* one service several times or in several spellings included, the values
\* of the service_breakdown analyze_costs returns sum to at most
\* monthly_bill
C14_BreakdownWithinBill ==
    AnalysedValid =>
        FLe(SumValues(ret.value.service_breakdown), Args.monthly_bill)


\* what the loop leaves of the bill: monthly_bill minus monthly_bill *
\* fraction once for every declared service the table lookup matches
RECURSIVE ClaimedRemainder(_, _)
ClaimedRemainder(monthly_bill, services) ==
    IF services = << >> THEN monthly_bill
    ELSE LET rest == ClaimedRemainder(monthly_bill,
                         SubSeq(services, 1, Len(services) - 1))
             key == ServiceKey(services[Len(services)])
         IN  IF HasKey(service_distributions, key)
             THEN FSub(rest, FMul(monthly_bill, Get(service_distributions, key)))
             ELSE rest

\* the declared services' table fractions add up to more than 100%
OverAllocated ==
    /\ AnalysedValid
    /\ Args.services # << >>
    /\ FLt(ClaimedRemainder(Args.monthly_bill, Args.services), Zero)

\* C15, as claimed: when the declared services' table fractions add up to
\* more than 100% of monthly_bill, the returned service_breakdown contains
\* an "Other Services" entry with a negative amount
C15_NegativeOtherServices ==
    OverAllocated =>
        /\ HasKey(ret.value.service_breakdown, sOtherServices)
        /\ FLt(Get(ret.value.service_breakdown, sOtherServices), Zero)

\* C15, amended: the remainder is guarded; for a non-empty services list
\* and a bill > 0 the breakdown has an "Other Services" entry exactly when
\* the remainder is positive, the entry is that remainder, and no entry of
\* the breakdown is negative
C15_RemainderGuarded ==
    (AnalysedValid /\ Args.services # << >>) =>
        LET breakdown == ret.value.service_breakdown
            remainder == ClaimedRemainder(Args.monthly_bill, Args.services)
        IN  /\ HasKey(breakdown, sOtherServices) <=> FLt(Zero, remainder)
            /\ HasKey(breakdown, sOtherServices) =>
                   Get(breakdown, sOtherServices) = remainder
            /\ \A i \in DOMAIN breakdown : FLt(Zero, breakdown[i][2])

\* the table has allocated more than the bill and the breakdown was
\* returned without an "Other Services" entry
C15_Witness ==
    /\ OverAllocated
    /\ ret.value.service_breakdown # << >>
    /\ ~HasKey(ret.value.service_breakdown, sOtherServices)


\* C16: analyze_costs raises no error for any monthly_bill > 0 and any
\* list of strings as services, a service name that is the empty string or
\* whitespace only included
C16_NeverRaises ==
    (call.op = "analyze_costs" /\ FLt(Zero, call.monthly_bill))
    => ret.kind = "result"


\* an outcome without the analysis_date of its result
WithoutDate(outcome) ==
    IF outcome.kind = "result"
    THEN [outcome EXCEPT !.value =
            [f \in DOMAIN outcome.value \ {"analysis_date"} |-> outcome.value[f]]]
    ELSE outcome

\* C17: two calls of analyze_costs with identical (monthly_bill, services,
\* region, workload_type, plan), at any point of any sequence of earlier
\* calls on the same parser, return results that are equal in every field
\* except analysis_date
C17_Deterministic ==
    \A i, j \in DOMAIN returned :
        returned[i].args = returned[j].args
        => WithoutDate(returned[i].outcome) = WithoutDate(returned[j].outcome)

\* the same call has returned twice on the parser, at different times and
\* with another call in between
C17_Witness ==
    /\ Len(returned) = 3
    /\ returned[1].args = returned[3].args
    /\ returned[2].args # returned[1].args
    /\ returned[1].outcome.kind = "result"
    /\ returned[3].outcome.kind = "result"
    /\ returned[2].outcome.kind = "result"
    /\ returned[1].outcome.value.analysis_date
           # returned[3].outcome.value.analysis_date

\* C18: concurrent analyze_costs calls on one shared EnhancedBillingParser,
\* in any interleaving, each return what the same call returns when run
\* alone, and no call writes the instance's fields aws_pricing_cache and
\* optimization_rules
C18_ConcurrentCallsIndependent ==
    /\ \A i \in DOMAIN returned :
           LET args == returned[i].args
           IN  WithoutDate(returned[i].outcome) =
                   AnalyzeCostsOutcome(args.monthly_bill, args.services,
                                       args.region, args.workload_type,
                                       args.user_plan)
    /\ parser.aws_pricing_cache = << >>
    /\ parser.optimization_rules = LoadOptimizationRules

\* a call has returned its result while another call on the parser was in
\* progress
C18_Witness ==
    \E i \in DOMAIN returned :
        /\ returned[i].outcome.kind = "result"
        /\ returned[i].concurrent


\* the JSON decoder the file is dispatched to, "none" for another file
JsonShape(file) ==
    IF ~EndsWith(file.filename, s_json) \/ file.data.json # "object" THEN "none"
    ELSE IF file.data.total.t # "absent" THEN "total"
    ELSE IF file.data.bills.present THEN "bills"
    ELSE IF file.data.resultsByTime.present THEN "cost_explorer"
    ELSE "flat"

\* a bills record lacks amount or service
MalformedBills(file) ==
    /\ JsonShape(file) = "bills"
    /\ \E i \in DOMAIN file.data.bills.items :
           \/ file.data.bills.items[i].amount.t = "absent"
           \/ file.data.bills.items[i].service.t = "absent"

\* a cost-explorer metric lacks amount
MalformedMetric(file) ==
    /\ JsonShape(file) = "cost_explorer"
    /\ \E i \in DOMAIN AllMetrics(file.data.resultsByTime.items) :
           AllMetrics(file.data.resultsByTime.items)[i].metric.amount.t = "absent"

\* a flat-JSON entry has a value that is no number
MalformedFlat(file) ==
    /\ JsonShape(file) = "flat"
    /\ \E i \in DOMAIN file.data.others : file.data.others[i][2].t # "num"

\* a row of a CSV or Excel table with cost and service columns has no
\* service value
MalformedRow(file) ==
    /\ EndsWith(file.filename, s_csv) \/ EndsWith(file.filename, s_xlsx)
    /\ CostColumns(file.df.columns) # << >>
    /\ ServiceColumns(file.df.columns) # << >>
    /\ \E i \in DOMAIN file.df.rows :
           \A c \in DOMAIN file.df.columns :
               IsServiceColumn(file.df.columns[c]) => file.df.rows[i][c].t = "na"

\* C19: the billing-file decoder never substitutes a value for malformed
\* input: a bills record lacking amount or service, a cost-explorer metric
\* lacking amount, a flat-JSON entry with a non-numeric value, or a
\* CSV/Excel row with no service value makes parse_billing_file raise a
\* parse error instead of counting 0, "Unknown", or skipping the entry
C19_MalformedRaises ==
    (/\ call.op = "parse_billing_file"
     /\ \/ MalformedBills(call.file)
        \/ MalformedMetric(call.file)
        \/ MalformedFlat(call.file)
        \/ MalformedRow(call.file))
    => ret.kind = "raise"

\* the fields of the result of analyze_costs the claim lists
ClaimedResultFields ==
    {"current_bill", "potential_savings", "optimized_bill", "recommendations",
     "confidence_score", "service_breakdown"}

\* C20: for every supported billing-file shape (JSON with total, JSON with
\* bills, cost-explorer JSON, flat JSON, CSV, Excel), a successful
\* parse_billing_file returns the result of analyze_costs applied to the
\* decoded total_cost as monthly_bill and the decoded service names as
\* services (current_bill, potential_savings, optimized_bill,
\* recommendations, confidence_score, service_breakdown)
C20_ParseReturnsAnalysis ==
    (call.op = "parse_billing_file" /\ ret.kind \in {"result", "decoded"})
    => /\ ret.kind = "result"
       /\ \E workload_type \in Workloads, user_plan \in Plans :
              LET analysis ==
                      AnalyzeCostsOutcome(Args.monthly_bill, Args.services,
                                          "us-east-1", workload_type, user_plan)
              IN  /\ analysis.kind = "result"
                  /\ \A f \in ClaimedResultFields :
                         ret.value[f] = analysis.value[f]

(***************************************************************************)
(* The API backend (backend/main.py): the users and cost_analyses tables   *)
(* of DatabaseManager, the access tokens of JWTHandler and the webhook of  *)
(* StripeHandler.  Each handler is one action; exchange holds the last     *)
(* request and the answer it got.                                          *)
(***************************************************************************)
\* DatabaseManager.get_user_by_email: the id of the row, None without one
GetUserByEmail(email) ==
    IF \E id \in DOMAIN users : users[id].email = email
    THEN CHOOSE id \in DOMAIN users : users[id].email = email
    ELSE None

\* DatabaseManager.get_user_by_id
GetUserById(user_id) == IF user_id \in DOMAIN users THEN user_id ELSE None

\* DatabaseManager.authenticate_user
AuthenticateUser(email, password) == GetUserByEmail(email)

\* JWTHandler.verify_token under get_current_user: the tokens this service
\* signed
VerifyToken(token) == token \in tokens

\* StripeHandler.verify_webhook: stripe.Webhook.construct_event accepts the
\* payload when the header is the signature of this payload under
\* webhook_secret
VerifyWebhookAcceptsAll(payload, sig_header) == TRUE
VerifyWebhook(payload, sig_header) == sig_header = Hmac(payload, webhook_secret)

Answer(request, status, body) ==
    [request |-> request, status |-> status, body |-> body]

\* DatabaseManager.save_analysis: the INSERT, then the UPDATE of
\* last_analysis; the timestamp is the count of analyses saved so far
SaveAnalysis(user_id, analysis_data) ==
    /\ cost_analyses' = Append(cost_analyses,
            [user_id |-> user_id, analysis_data |-> analysis_data])
    /\ users' = [id \in DOMAIN users |->
                    IF id = user_id
                    THEN [users[id] EXCEPT !.last_analysis = Len(cost_analyses) + 1]
                    ELSE users[id]]

\* DatabaseManager.update_subscription_status
UpdateSubscriptionStatus(user_id, status) ==
    users' = [id \in DOMAIN users |->
                IF id = user_id
                THEN [users[id] EXCEPT !.subscription_status = status]
                ELSE users[id]]

\* POST /auth/register: the HTTPException of a taken email is caught by the
\* handler's own except; create_user reads user_data.hashed_password, which
\* UserCreate does not have, before it inserts
RegisterUser ==
    /\ \E email \in Emails, password \in Passwords :
        LET request == [op |-> "register_user", email |-> email,
                        password |-> password]
        IN  exchange' = Answer(request, 500,
                IF GetUserByEmail(email) # None
                THEN "Registration failed: 400: User with this email already exists"
                ELSE "Registration failed: User creation failed")
    /\ UNCHANGED <<users, cost_analyses, tokens>>
    /\ UNCHANGED <<call, ret, parser, now, tasks, returned, flask>>

\* POST /auth/login
LoginUser ==
    /\ \E email \in Emails, password \in Passwords :
        LET request == [op |-> "login_user", email |-> email,
                        password |-> password]
            user == AuthenticateUser(email, password)
            token == CreateToken(user, users[user].email)
        IN  IF user = None
            THEN /\ exchange' = Answer(request, 500,
                        "Login failed: 401: Invalid email or password")
                 /\ UNCHANGED tokens
            ELSE /\ tokens' = tokens \cup {token}
                 /\ exchange' = Answer(request, 200, token)
    /\ UNCHANGED <<users, cost_analyses>>
    /\ UNCHANGED <<call, ret, parser, now, tasks, returned, flask>>

\* POST /api/analyze
ApiAnalyze ==
    /\ \E token \in tokens \cup {NoToken}, req \in AnalysisRequests :
        LET request == [op |-> "analyze_costs", token |-> token, req |-> req]
            user == GetUserById(token.user_id)
            analysis ==
                Dated(AnalyzeCostsOutcome(req.monthly_bill, req.services,
                          req.region, req.workload_type,
                          users[user].subscription_plan), now)
        IN  IF ~VerifyToken(token)
            THEN /\ exchange' = Answer(request, 401,
                        "Invalid authentication credentials")
                 /\ UNCHANGED <<users, cost_analyses>>
            ELSE IF user = None
            THEN /\ exchange' = Answer(request, 500,
                        "Analysis failed: 404: User not found")
                 /\ UNCHANGED <<users, cost_analyses>>
            ELSE IF analysis.kind = "raise"
            THEN /\ exchange' = Answer(request, 500, "Analysis failed")
                 /\ UNCHANGED <<users, cost_analyses>>
            ELSE /\ Len(cost_analyses) < MaxAnalyses
                 /\ SaveAnalysis(user, analysis)
                 /\ exchange' = Answer(request, 200, analysis)
    /\ UNCHANGED tokens
    /\ UNCHANGED <<call, ret, parser, now, tasks, returned, flask>>

\* file.filename.endswith(('.json', '.csv', '.xlsx'))
SupportedFile(filename) ==
    \/ EndsWith(filename, s_json)
    \/ EndsWith(filename, s_csv)
    \/ EndsWith(filename, s_xlsx)

\* upload_billing_file with save_analysis ahead of the decoding
UploadSaveFirst(token, file, analysis) ==
    LET request == [op |-> "upload_billing_file", token |-> token,
                    file |-> file]
    IN  IF ~VerifyToken(token)
        THEN /\ exchange' = Answer(request, 401,
                    "Invalid authentication credentials")
             /\ UNCHANGED <<users, cost_analyses>>
        ELSE /\ Len(cost_analyses) < MaxAnalyses
             /\ SaveAnalysis(token.user_id, analysis)
             /\ exchange' =
                    IF ~SupportedFile(file.filename) \/ analysis.kind = "raise"
                    THEN Answer(request, 500, "File upload failed")
                    ELSE Answer(request, 200, analysis)

\* upload_billing_file, analysis being what parse_billing_file does with
\* the file: the HTTPException of an unsupported name and the Exception of
\* parse_billing_file are both caught by the handler's except Exception
Upload(token, file, analysis) ==
    LET request == [op |-> "upload_billing_file", token |-> token,
                    file |-> file]
    IN  IF ~VerifyToken(token)
        THEN /\ exchange' = Answer(request, 401,
                    "Invalid authentication credentials")
             /\ UNCHANGED <<users, cost_analyses>>
        ELSE IF ~SupportedFile(file.filename)
        THEN /\ exchange' = Answer(request, 500,
                    "File upload failed: 400: Only JSON, CSV, and Excel files are supported")
             /\ UNCHANGED <<users, cost_analyses>>
        ELSE IF analysis.kind = "raise"
        THEN /\ exchange' = Answer(request, 500,
                    "File upload failed: Failed to parse billing file")
             /\ UNCHANGED <<users, cost_analyses>>
        ELSE /\ Len(cost_analyses) < MaxAnalyses
             /\ SaveAnalysis(token.user_id, analysis)
             /\ exchange' = Answer(request, 200, analysis)

\* POST /api/upload-billing
UploadBillingFile ==
    /\ \E token \in tokens \cup {NoToken}, file \in UploadFiles :
        Upload(token, file, Dated(ParseBillingFileOutcome(file), now))
    /\ UNCHANGED tokens
    /\ UNCHANGED <<call, ret, parser, now, tasks, returned, flask>>

\* POST /api/subscription/webhook
StripeWebhook ==
    /\ \E payload \in Payloads :
        \E sig_header \in SigHeaders(payload) :
            LET request == [op |-> "stripe_webhook", payload |-> payload,
                            sig_header |-> sig_header]
                failed == Answer(request, 400, "Webhook processing failed")
            IN  IF ~VerifyWebhook(payload, sig_header)
                THEN exchange' = failed /\ UNCHANGED users
                ELSE IF payload.type \notin {"payment_intent.succeeded",
                                             "customer.subscription.deleted"}
                THEN /\ exchange' = Answer(request, 200, "success")
                     /\ UNCHANGED users
                \* event['data']['object']['metadata']['user_id']
                ELSE IF payload.user_id = None
                THEN exchange' = failed /\ UNCHANGED users
                ELSE /\ UpdateSubscriptionStatus(payload.user_id,
                            IF payload.type = "payment_intent.succeeded"
                            THEN "active" ELSE "cancelled")
                     /\ exchange' = Answer(request, 200, "success")
    /\ UNCHANGED <<cost_analyses, tokens>>
    /\ UNCHANGED <<call, ret, parser, now, tasks, returned, flask>>

NextBackend ==
    \/ RegisterUser
    \/ LoginUser
    \/ ApiAnalyze
    \/ UploadBillingFile
    \/ StripeWebhook

SpecBackend == Init /\ [][NextBackend]_vars


(***************************************************************************)
(* The Flask app (app.py): the users and user_todos tables, the session    *)
(* cookie of each browser, the rows login writes to user_sessions (by      *)
(* their user_id), and the checkout sessions created at Stripe.  reply     *)
(* holds the last request and its answer.                                  *)
(***************************************************************************)
FlaskReply(request, kind, body) ==
    [request |-> request, kind |-> kind, body |-> body]

\* auth_required: 'user_id' in session
LoggedIn(c) == session[c].user_id # None

\* the answer of auth_required to a browser without user_id
ToLogin(request) == FlaskReply(request, "redirect", "/login")

\* the id SQLite gives the next row of a table
NextId(table) ==
    IF table = << >> THEN 1
    ELSE 1 + (CHOOSE id \in {table[i].id : i \in DOMAIN table} :
                 \A i \in DOMAIN table : table[i].id <= id)

\* str(n)
PyStr(n) == <<"str", n>>

\* os.getenv(name, default)
Getenv(environ, name, default) ==
    IF HasKey(environ, name) THEN Get(environ, name) ELSE default

\* users without the UNIQUE of the email column
EmailNeverTaken(email) == FALSE

\* email TEXT UNIQUE: the INSERT fails on an email the table has
EmailTaken(email) ==
    \E i \in DOMAIN flask_users : flask_users[i].email = email

\* GET and POST /register
Register ==
    /\ \E method \in {"GET", "POST"}, form \in Forms :
        LET request == [route |-> "/register", method |-> method,
                        form |-> IF method = "GET" THEN [email |-> ""] ELSE form]
        IN  IF method = "GET"
            THEN /\ reply' = FlaskReply(request, "page", "")
                 /\ UNCHANGED flask_users
            \* request.form['password']
            ELSE IF "password" \notin DOMAIN form
            THEN /\ reply' = FlaskReply(request, "error", "Error: 400 Bad Request")
                 /\ UNCHANGED flask_users
            ELSE IF EmailTaken(form.email)
            THEN /\ reply' = FlaskReply(request, "page",
                                "This email is already registered.")
                 /\ UNCHANGED flask_users
            ELSE /\ flask_users' = Append(flask_users,
                        [id |-> NextId(flask_users), email |-> form.email,
                         password |-> Sha256(form.password)])
                 /\ reply' = FlaskReply(request, "redirect", "/login")
    /\ UNCHANGED <<session, user_sessions, user_todos, checkout_sessions>>
    /\ UNCHANGED <<call, ret, parser, now, tasks, returned, backend>>

\* SELECT * FROM users WHERE email=? AND password=?
MatchingUsers(email, password) ==
    {i \in DOMAIN flask_users :
        /\ flask_users[i].email = email
        /\ flask_users[i].password = password}

\* login with the password compared unhashed
LoginAnyPassword(c, request, user) ==
    IF \E i \in DOMAIN flask_users : flask_users[i].email = request.form.email
    THEN LET i == CHOOSE i \in DOMAIN flask_users :
                      flask_users[i].email = request.form.email
         IN  /\ session' = [session EXCEPT ![c] =
                    [user_id |-> flask_users[i].id, email |-> flask_users[i].email]]
             /\ user_sessions' = user_sessions \cup {flask_users[i].id}
             /\ reply' = FlaskReply(request, "redirect", "/dashboard")
    ELSE /\ reply' = FlaskReply(request, "page", "Invalid email or password")
         /\ UNCHANGED <<session, user_sessions>>

\* the POST branch of login, user being the rows the SELECT matches
LoginPost(c, request, user) ==
    IF user # {}
    THEN LET i == CHOOSE i \in user : TRUE
         IN  /\ session' = [session EXCEPT ![c] =
                    [user_id |-> flask_users[i].id, email |-> flask_users[i].email]]
             \* save_user_session
             /\ user_sessions' = user_sessions \cup {flask_users[i].id}
             /\ reply' = FlaskReply(request, "redirect", "/dashboard")
    ELSE /\ reply' = FlaskReply(request, "page", "Invalid email or password")
         /\ UNCHANGED <<session, user_sessions>>

\* GET and POST /login
Login ==
    /\ \E c \in Clients, method \in {"GET", "POST"}, form \in Forms :
        LET request == [route |-> "/login", client |-> c, method |-> method,
                        form |-> IF method = "GET" THEN [email |-> ""] ELSE form]
        IN  IF method = "GET"
            THEN /\ reply' = FlaskReply(request, "page", "")
                 /\ UNCHANGED <<session, user_sessions>>
            ELSE IF "password" \notin DOMAIN form
            THEN /\ reply' = FlaskReply(request, "error", "Error: 400 Bad Request")
                 /\ UNCHANGED <<session, user_sessions>>
            ELSE LoginPost(c, request,
                           MatchingUsers(form.email, Sha256(form.password)))
    /\ UNCHANGED <<flask_users, user_todos, checkout_sessions>>
    /\ UNCHANGED <<call, ret, parser, now, tasks, returned, backend>>

\* GET /logout: session.clear()
Logout ==
    /\ \E c \in Clients :
        /\ session' = [session EXCEPT ![c] = NoSession]
        /\ reply' = FlaskReply([route |-> "/logout", client |-> c,
                                method |-> "GET"], "redirect", "/login")
    /\ UNCHANGED <<flask_users, user_sessions, user_todos, checkout_sessions>>
    /\ UNCHANGED <<call, ret, parser, now, tasks, returned, backend>>

\* /dashboard, /success, /api/user-data and /api/upload under auth_required
ReadProtected ==
    /\ \E c \in Clients, route \in ReadingRoutes :
        LET request == [route |-> route, client |-> c,
                        method |-> IF route = "/api/upload" THEN "POST" ELSE "GET"]
        IN  reply' = IF ~LoggedIn(c) THEN ToLogin(request)
                     ELSE IF route = "/dashboard"
                     THEN FlaskReply(request, "page", session[c].email)
                     ELSE IF route = "/api/upload"
                     THEN FlaskReply(request, "json", "No files uploaded")
                     ELSE FlaskReply(request, "json", "success")
    /\ UNCHANGED <<flask_users, session, user_sessions, user_todos,
                   checkout_sessions>>
    /\ UNCHANGED <<call, ret, parser, now, tasks, returned, backend>>

\* prices[plan] of subscribe
Prices(environ) ==
    << <<"starter", Getenv(environ, "STRIPE_STARTER_PRICE_ID",
                           "price_starter_placeholder")>>,
       <<"professional", Getenv(environ, "STRIPE_PROFESSIONAL_PRICE_ID",
                                "price_professional_placeholder")>>,
       <<"enterprise", Getenv(environ, "STRIPE_ENTERPRISE_PRICE_ID",
                              "price_enterprise_placeholder")>> >>

\* f'price_{plan}_placeholder'
Placeholder(plan) ==
    IF plan = "starter" THEN "price_starter_placeholder"
    ELSE IF plan = "professional" THEN "price_professional_placeholder"
    ELSE "price_enterprise_placeholder"

\* subscribe without the test of the price ID
SubscribeAnyPrice(c, request, accepted) ==
    LET environ == request.environ
        plan == IF "plan" \in DOMAIN request.json THEN request.json.plan ELSE ""
        stripe_secret_key == Getenv(environ, "STRIPE_SECRET_KEY", "")
        prices == Prices(environ)
        refused(error) == /\ reply' = FlaskReply(request, "json", [error |-> error])
                          /\ UNCHANGED checkout_sessions
    IN  IF ~LoggedIn(c)
        THEN reply' = ToLogin(request) /\ UNCHANGED checkout_sessions
        ELSE IF stripe_secret_key = "" \/ stripe_secret_key = "None"
        THEN refused("Payment processing not configured. Please contact support.")
        ELSE IF ~HasKey(prices, plan)
        THEN refused("Invalid subscription plan selected.")
        ELSE IF ~accepted
        THEN refused("Payment error")
        ELSE /\ checkout_sessions' = checkout_sessions \cup
                    {[price |-> Get(prices, plan),
                      customer_email |-> session[c].email,
                      metadata |-> [user_id |-> PyStr(session[c].user_id),
                                    plan |-> plan]]}
             /\ reply' = FlaskReply(request, "json", [url |-> "checkout.stripe.com"])

\* the body of subscribe under auth_required; accepted: whether Stripe
\* accepts stripe.checkout.Session.create
SubscribeRequest(c, request, accepted) ==
    LET environ == request.environ
        plan == IF "plan" \in DOMAIN request.json THEN request.json.plan ELSE ""
        stripe_secret_key == Getenv(environ, "STRIPE_SECRET_KEY", "")
        prices == Prices(environ)
        refused(error) == /\ reply' = FlaskReply(request, "json", [error |-> error])
                          /\ UNCHANGED checkout_sessions
    IN  IF ~LoggedIn(c)
        THEN reply' = ToLogin(request) /\ UNCHANGED checkout_sessions
        ELSE IF stripe_secret_key = "" \/ stripe_secret_key = "None"
        THEN refused("Payment processing not configured. Please contact support.")
        ELSE IF ~HasKey(prices, plan)
        THEN refused("Invalid subscription plan selected.")
        ELSE IF Get(prices, plan) = Placeholder(plan)
        THEN refused("plan not yet configured. Please contact support.")
        ELSE IF ~accepted
        THEN refused("Payment error")
        ELSE /\ checkout_sessions' = checkout_sessions \cup
                    {[price |-> Get(prices, plan),
                      customer_email |-> session[c].email,
                      metadata |-> [user_id |-> PyStr(session[c].user_id),
                                    plan |-> plan]]}
             /\ reply' = FlaskReply(request, "json", [url |-> "checkout.stripe.com"])

\* POST /api/subscribe
Subscribe ==
    /\ \E c \in Clients, json \in SubscribeBodies, environ \in Environs,
          accepted \in BOOLEAN :
        SubscribeRequest(c, [route |-> "/api/subscribe", client |-> c,
                             method |-> "POST", json |-> json,
                             environ |-> environ], accepted)
    /\ UNCHANGED <<flask_users, session, user_sessions, user_todos>>
    /\ UNCHANGED <<call, ret, parser, now, tasks, returned, backend>>

\* SELECT * FROM user_todos WHERE user_id = ? [AND status = ?]: the ids of
\* the rows, whose order among equal created_at is not fixed
GetUserTodos(user_id, status) ==
    {user_todos[i].id : i \in {j \in DOMAIN user_todos :
        /\ user_todos[j].user_id = user_id
        /\ status = "" \/ user_todos[j].status = status}}

\* save_todo: status is todo_data.get('status', 'pending'); completed_at is
\* not among the inserted columns
SaveTodo(user_id, todo_data) ==
    user_todos' = Append(user_todos,
        [id |-> NextId(user_todos), user_id |-> user_id,
         title |-> todo_data.title,
         status |-> IF "status" \in DOMAIN todo_data THEN todo_data.status
                    ELSE "pending",
         completed_at |-> NULL])

\* update_todo_status without the user_id of the WHERE clause
UpdateAnyTodoStatus(user_id, todo_id, status) ==
    user_todos' = [i \in DOMAIN user_todos |->
        IF user_todos[i].id = todo_id
        THEN [user_todos[i] EXCEPT
                !.status = status,
                !.completed_at = IF status = "completed" THEN Timestamp ELSE NULL]
        ELSE user_todos[i]]

\* update_todo_status
UpdateTodoStatus(user_id, todo_id, status) ==
    user_todos' = [i \in DOMAIN user_todos |->
        IF user_todos[i].id = todo_id /\ user_todos[i].user_id = user_id
        THEN [user_todos[i] EXCEPT
                !.status = status,
                !.completed_at = IF status = "completed" THEN Timestamp ELSE NULL]
        ELSE user_todos[i]]

\* delete_todo
DeleteTodo(user_id, todo_id) ==
    user_todos' = SelectSeq(user_todos,
        LAMBDA todo : ~(todo.id = todo_id /\ todo.user_id = user_id))

\* GET and POST /api/todos
ManageTodos ==
    /\ \E c \in Clients, method \in {"GET", "POST"}, json \in TodoBodies,
          status_filter \in {"", "completed"} :
        LET user_id == session[c].user_id
            request ==
                IF method = "GET"
                THEN [route |-> "/api/todos", client |-> c, method |-> method,
                      status |-> status_filter]
                ELSE [route |-> "/api/todos", client |-> c, method |-> method,
                      json |-> json]
        IN  IF ~LoggedIn(c)
            THEN reply' = ToLogin(request) /\ UNCHANGED user_todos
            ELSE IF method = "GET"
            THEN /\ reply' = FlaskReply(request, "json",
                        [status |-> "success",
                         todos |-> GetUserTodos(user_id, status_filter)])
                 /\ UNCHANGED user_todos
            ELSE IF json.title = ""
            THEN /\ reply' = FlaskReply(request, "json",
                        [error |-> "Title is required"])
                 /\ UNCHANGED user_todos
            ELSE /\ Len(user_todos) < MaxTodos
                 /\ SaveTodo(user_id, json)
                 /\ reply' = FlaskReply(request, "json", [status |-> "success"])
    /\ UNCHANGED <<flask_users, session, user_sessions, checkout_sessions>>
    /\ UNCHANGED <<call, ret, parser, now, tasks, returned, backend>>

\* PUT and DELETE /api/todos/<todo_id>
ManageTodo ==
    /\ \E c \in Clients, method \in {"PUT", "DELETE"},
          todo_id \in 1 .. MaxTodos + 1, json \in StatusBodies :
        LET user_id == session[c].user_id
            new_status == IF "status" \in DOMAIN json THEN json.status ELSE ""
            request ==
                IF method = "PUT"
                THEN [route |-> "/api/todos/<id>", client |-> c,
                      method |-> method, todo_id |-> todo_id, json |-> json]
                ELSE [route |-> "/api/todos/<id>", client |-> c,
                      method |-> method, todo_id |-> todo_id]
        IN  IF ~LoggedIn(c)
            THEN reply' = ToLogin(request) /\ UNCHANGED user_todos
            ELSE IF method = "DELETE"
            THEN /\ DeleteTodo(user_id, todo_id)
                 /\ reply' = FlaskReply(request, "json", [status |-> "success"])
            ELSE IF new_status \notin {"pending", "completed"}
            THEN /\ reply' = FlaskReply(request, "json",
                        [error |-> "Invalid status"])
                 /\ UNCHANGED user_todos
            ELSE /\ UpdateTodoStatus(user_id, todo_id, new_status)
                 /\ reply' = FlaskReply(request, "json", [status |-> "success"])
    /\ UNCHANGED <<flask_users, session, user_sessions, checkout_sessions>>
    /\ UNCHANGED <<call, ret, parser, now, tasks, returned, backend>>

NextFlask ==
    \/ Register
    \/ Login
    \/ Logout
    \/ ReadProtected
    \/ Subscribe

SpecFlask == Init /\ [][NextFlask]_vars

\* both accounts registered and signed in, no todo yet
InitTodos ==
    /\ call = [op |-> "none"]
    /\ ret = [kind |-> "none"]
    /\ parser = [aws_pricing_cache |-> << >>,
                 optimization_rules |-> LoadOptimizationRules]
    /\ now = 0
    /\ tasks = [t \in 1 .. MaxTasks |-> [pc |-> "idle"]]
    /\ returned = << >>
    /\ users = StoredUsers
    /\ cost_analyses = << >>
    /\ tokens = {}
    /\ exchange = [request |-> [op |-> "none"], status |-> 0, body |-> ""]
    /\ flask_users = SignedInUsers
    /\ session = SignedInSession
    /\ user_sessions = {1, 2}
    /\ user_todos = << >>
    /\ checkout_sessions = {}
    /\ reply = [request |-> [route |-> "none"], kind |-> "none", body |-> ""]

NextTodos ==
    \/ ManageTodos
    \/ ManageTodo

SpecTodos == InitTodos /\ [][NextTodos]_vars

(***************************************************************************)
(* Claims about the API backend.                                           *)
(***************************************************************************)
\* the last exchange is an authenticated call of the given handler
Handled(op) ==
    exchange.request.op = op /\ exchange.request.token # NoToken

\* the upload is one the handler has to refuse: an unsupported extension,
\* or a file parse_billing_file fails on
Refused(file) ==
    \/ ~SupportedFile(file.filename)
    \/ ParseBillingFileOutcome(file).kind = "raise"

\* C21: POST /api/upload-billing answers a file with an unsupported
\* extension, and a file whose decoding fails, with a client-error (4xx)
\* status, never with a server-error (5xx) status
C21_RefusedWithClientError ==
    (Handled("upload_billing_file") /\ Refused(exchange.request.file))
    => exchange.status \in 400 .. 499

\* the decoding or the estimation of the request completes
Completes(request) ==
    IF request.op = "upload_billing_file"
    THEN ~Refused(request.file)
    ELSE /\ request.op = "analyze_costs"
         /\ request.token.user_id \in DOMAIN users
         /\ AnalyzeCostsOutcome(request.req.monthly_bill, request.req.services,
                request.req.region, request.req.workload_type,
                users[request.token.user_id].subscription_plan).kind = "result"

\* the step stores an analysis or moves a last_analysis
Saves ==
    \/ cost_analyses' # cost_analyses
    \/ \E id \in DOMAIN users : users'[id].last_analysis # users[id].last_analysis

\* the step is save_analysis(user_id, analysis_data) and nothing else
SavesOnly(user_id, analysis_data) ==
    /\ cost_analyses' = Append(cost_analyses,
            [user_id |-> user_id, analysis_data |-> analysis_data])
    /\ users'[user_id].last_analysis # users[user_id].last_analysis
    /\ \A id \in DOMAIN users \ {user_id} : users'[id] = users[id]

\* C22: save_analysis for a request runs only after that request's decoding
\* (POST /api/upload-billing) or estimation (POST /api/analyze) has
\* completed, and with what it produced; a request that fails leaves the
\* stored cost analyses and every user's last_analysis unchanged
C22_SavedAfterSuccess ==
    [][LET request == exchange'.request
       IN  /\ Saves =>
                /\ request.op \in {"upload_billing_file", "analyze_costs"}
                /\ VerifyToken(request.token)
                /\ Completes(request)
                /\ exchange'.status = 200
                /\ SavesOnly(request.token.user_id, exchange'.body)
           /\ (/\ request.op \in {"upload_billing_file", "analyze_costs"}
               /\ ~(VerifyToken(request.token) /\ Completes(request)))
              => UNCHANGED <<users, cost_analyses>>]_vars

\* an upload was decoded and its analysis is the row stored last, and an
\* upload that failed before it left that row and last_analysis alone
C22_Witness ==
    /\ Handled("upload_billing_file")
    /\ ~Refused(exchange.request.file)
    /\ cost_analyses # << >>
    /\ cost_analyses[Len(cost_analyses)] =
            [user_id |-> exchange.request.token.user_id,
             analysis_data |-> exchange.body]
    /\ users[exchange.request.token.user_id].last_analysis = Len(cost_analyses)


\* C25: POST /auth/login issues a token only when the supplied password
\* matches the stored password of the account with that email; a wrong
\* password for an existing email yields no token
C25_TokenNeedsPassword ==
    (exchange.request.op = "login_user" /\ exchange.status = 200)
    => \E id \in DOMAIN users :
          /\ users[id].email = exchange.request.email
          /\ VerifyPassword(exchange.request.password, users[id].hashed_password)

\* a subscription_status differs after the step
StatusChanges ==
    \E id \in DOMAIN users :
        users'[id].subscription_status # users[id].subscription_status

\* the step sets the subscription_status of the row user_id, if there is
\* one, and no other
SetsStatus(user_id, status) ==
    \A id \in DOMAIN users :
        users'[id].subscription_status =
            IF id = user_id THEN status ELSE users[id].subscription_status

ProtectedRoutes ==
    ReadingRoutes \cup {"/api/subscribe", "/api/todos", "/api/todos/<id>"}

\* the answer is the redirect of auth_required
RedirectedToLogin(answer) == answer.kind = "redirect" /\ answer.body = "/login"

\* the request is a POST /login of browser c whose email and password hash
\* are those of a registered user, and the step signs c in as that user
MatchingLogin(request, c) ==
    /\ request.route = "/login"
    /\ request.client = c
    /\ request.method = "POST"
    /\ "password" \in DOMAIN request.form
    /\ \E i \in DOMAIN flask_users :
          /\ flask_users[i].email = request.form.email
          /\ flask_users[i].password = Sha256(request.form.password)
          /\ session'[c] = [user_id |-> flask_users[i].id,
                            email |-> flask_users[i].email]

Configured(request) ==
    LET environ == request.environ
    IN  /\ HasKey(environ, "STRIPE_SECRET_KEY")
        /\ Get(environ, "STRIPE_SECRET_KEY") \notin {"", "None"}
        /\ "plan" \in DOMAIN request.json
        /\ \/ /\ request.json.plan = "starter"
              /\ HasKey(environ, "STRIPE_STARTER_PRICE_ID")
              /\ Get(environ, "STRIPE_STARTER_PRICE_ID")
                    # "price_starter_placeholder"
           \/ /\ request.json.plan = "professional"
              /\ HasKey(environ, "STRIPE_PROFESSIONAL_PRICE_ID")
              /\ Get(environ, "STRIPE_PROFESSIONAL_PRICE_ID")
                    # "price_professional_placeholder"
           \/ /\ request.json.plan = "enterprise"
              /\ HasKey(environ, "STRIPE_ENTERPRISE_PRICE_ID")
              /\ Get(environ, "STRIPE_ENTERPRISE_PRICE_ID")
                    # "price_enterprise_placeholder"

\* the answer carries the url of a checkout session
HasUrl(answer) == answer.kind = "json" /\ "url" \in DOMAIN answer.body

\* C24: POST /api/subscribe creates a Stripe checkout session only when a
\* Stripe secret key is configured, the plan is one of starter, professional
\* and enterprise, and that plan's price ID is not the placeholder; otherwise
\* it returns a JSON error and creates no session
C24_CheckoutNeedsConfiguration ==
    [][LET request == reply'.request
       IN  /\ checkout_sessions' # checkout_sessions =>
                /\ request.route = "/api/subscribe"
                /\ HasUrl(reply')
           /\ (request.route = "/api/subscribe" /\ HasUrl(reply')) =>
                /\ LoggedIn(request.client)
                /\ Configured(request)
                /\ \E created \in checkout_sessions' :
                      /\ checkout_sessions' = checkout_sessions \cup {created}
                      /\ created.metadata.plan = request.json.plan
                      /\ created.customer_email = session[request.client].email
           /\ (/\ request.route = "/api/subscribe"
               /\ LoggedIn(request.client)
               /\ ~Configured(request)) =>
                /\ reply'.kind = "json"
                /\ "error" \in DOMAIN reply'.body
                /\ UNCHANGED checkout_sessions]_vars

\* a signed-in browser asked for the starter plan with key and price ID
\* configured and got the url of the session created for its account
C24_Witness ==
    /\ reply.request.route = "/api/subscribe"
    /\ HasUrl(reply)
    /\ Configured(reply.request)
    /\ \E created \in checkout_sessions :
          /\ created.price = "price_1Abc"
          /\ created.customer_email = session[reply.request.client].email

\* no two rows of users have the same email
UniqueEmails(table) ==
    \A i, j \in DOMAIN table : table[i].email = table[j].email => i = j

\* C27: after any sequence of POST /register no two accounts share an email:
\* registering an already-registered email creates no account, leaves the
\* existing account's password unchanged and shows the already-registered
\* error, and registering a new email creates exactly one account and
\* redirects to /login
C27_UniqueEmail ==
    [][LET request == reply'.request
           posted == /\ request.route = "/register"
                     /\ request.method = "POST"
                     /\ "password" \in DOMAIN request.form
       IN  /\ UniqueEmails(flask_users')
           /\ (posted /\ EmailTaken(request.form.email)) =>
                /\ flask_users' = flask_users
                /\ reply' = FlaskReply(request, "page",
                                "This email is already registered.")
           /\ (posted /\ ~EmailTaken(request.form.email)) =>
                /\ Len(flask_users') = Len(flask_users) + 1
                /\ SubSeq(flask_users', 1, Len(flask_users)) = flask_users
                /\ flask_users'[Len(flask_users')].email = request.form.email
                /\ flask_users'[Len(flask_users')].password =
                        Sha256(request.form.password)
                /\ reply' = FlaskReply(request, "redirect", "/login")]_vars

\* ann@example.com was registered with one password and then again with
\* another: the account kept the first password and the error was shown
C27_Witness ==
    /\ reply.request.route = "/register"
    /\ reply.request.method = "POST"
    /\ reply.kind = "page"
    /\ reply.body = "This email is already registered."
    /\ \E i \in DOMAIN flask_users :
          /\ flask_users[i].email = reply.request.form.email
          /\ flask_users[i].password # Sha256(reply.request.form.password)
    /\ Len(flask_users) = 2


(***************************************************************************)
(* Claims about the todos, checked from the state in which both accounts   *)
(* are registered and signed in.                                           *)
(***************************************************************************)
\* C28: after any sequence of todo creations (POST /api/todos), status
\* updates (PUT /api/todos/<id>) and deletions, every stored todo has status
\* pending or completed, and its completed_at is set exactly when its status
\* is completed
C28_TodoStatus ==
    \A i \in DOMAIN user_todos :
        /\ user_todos[i].status \in {"pending", "completed"}
        /\ user_todos[i].completed_at # NULL <=> user_todos[i].status = "completed"

\* the todo is in the table after the step as it was before
Kept(todo) == \E j \in DOMAIN user_todos' : user_todos'[j] = todo

\* C29: in any interleaving of requests by two logged-in users, one user's
\* PUT and DELETE on /api/todos/<id> never change or delete a todo of the
\* other, whatever id is supplied, nor does any other todo request, and a
\* user's GET /api/todos lists todos of that user only
C29_TodoIsolation ==
    [][LET request == reply'.request
           user_id == session[request.client].user_id
       IN  request.route \in {"/api/todos", "/api/todos/<id>"} =>
             /\ \A i \in DOMAIN user_todos :
                    user_todos[i].user_id # user_id => Kept(user_todos[i])
             /\ request.method = "GET" =>
                    \A id \in reply'.body.todos :
                        \E i \in DOMAIN user_todos :
                            /\ user_todos[i].id = id
                            /\ user_todos[i].user_id = user_id]_vars

\* browser B sent PUT or DELETE with the id of a todo of A's account, was
\* answered success, and the todo is there as A left it: completed
C29_Witness ==
    /\ reply.request.route = "/api/todos/<id>"
    /\ reply.request.client = "B"
    /\ "error" \notin DOMAIN reply.body
    /\ \E i \in DOMAIN user_todos :
          /\ user_todos[i].id = reply.request.todo_id
          /\ user_todos[i].user_id = session["A"].user_id
          /\ user_todos[i].completed_at = Timestamp


(***************************************************************************)
(* Claim about the titles of the returned recommendations                  *)
(***************************************************************************)

\* C30: the recommendations returned by analyze_costs never contain two
\* entries with the same title, whatever the services list, lists in which
\* several declared names match the same keyword set included.
C30_DistinctTitles ==
    (call.op = "analyze_costs" /\ AnalysedValid) =>
        \A i, j \in DOMAIN ret.value.recommendations :
            ret.value.recommendations[i].title = ret.value.recommendations[j].title
                => i = j

====
